---- MODULE Spec2Model ----
(***************************************************************************)
(* State-machine model of the FileMaker OData mediator: tenant controller, *)
(* bootstrap pipeline, schema store, table cache and query engine.         *)
(*                                                                         *)
(* Every public operation is a coroutine.  A task's pc names the await at  *)
(* which it is suspended; one action resumes the task with the outcome of  *)
(* the pending remote request, runs the code up to the next await and      *)
(* issues that await's request (the last entry of the task's log).         *)
(***************************************************************************)
EXTENDS Integers, Sequences, FiniteSets, TLC

VARIABLES
    phase,              \* lifespan: "init" | "starting" | "serving" | "failed"
    activeTenant,       \* tenant._active_tenant["name"]
    clientTenant,       \* tenant whose credentials odata_client._client carries
    TABLES,             \* ddl.TABLES: names of the tables that have descriptors
    FIELD_ANNOTATIONS,  \* ddl.FIELD_ANNOTATIONS: names of the annotated tables
    DDL_CONTEXT,        \* ddl.DDL_CONTEXT: insertion-ordered context entries
    scriptAvailable,    \* ddl._script_available: "unknown" | "yes" | "no"
    EXPOSED_TABLES,     \* query.EXPOSED_TABLES: the exposed table names
    bootstrapError,     \* query._bootstrap_error: "" when None
    metadataCache,      \* schema._metadata_cache: "" when None, else its tenant
    tableCache,         \* analytics._table_cache: table -> entry | NoEntry
    datasets,           \* analytics._datasets: name -> entry | NoEntry
    remoteCtx,          \* the context table held by each tenant's server
    task                \* per-task coroutine state

vars == <<phase, activeTenant, clientTenant, TABLES, FIELD_ANNOTATIONS, DDL_CONTEXT,
          scriptAvailable, EXPOSED_TABLES, bootstrapError, metadataCache,
          tableCache, datasets, remoteCtx, task>>

schemaVars == <<TABLES, FIELD_ANNOTATIONS, DDL_CONTEXT, scriptAvailable,
                EXPOSED_TABLES, bootstrapError, metadataCache>>

----------------------------------------------------------------------------
(* Bounds of the model *)

MaxDay == 4
PageSize == 2
MAX_ROWS_PER_TABLE == 2
NoDate == -1

Days == 1..MaxDay
Today == MaxDay - 1

\* The coroutines of the event loop: the lifespan and the tool calls the
\* server runs at the same time.  A client that awaits each answer before
\* its next call keeps one of them busy.
Tasks == {1, 2}
Sequential == {1}

\* Tool calls explored per task after startup.
MaxCalls == 3

----------------------------------------------------------------------------
(* The remote servers: one FileMaker database per tenant *)

Tenants == {"acme", "staging"}
DefaultTenant == "acme"
TenantNames == Tenants \cup {"ghost"}

CONTEXT_TABLE == "TBL_DDL_Context"
DDL_SCRIPT == "Script.SCR_DDL_GetTableDDL"

TableNames == {"Orders", "Zones", "Notes", "Nope"}
DatasetNames == {"ds"}
CacheKeys == {"Orders", "Zones", "Notes"}

\* Entity sets of the service document (table occurrences included).
ServiceDoc(tn) ==
    IF tn = "acme" THEN {"Orders", "Zones", "Notes", "OrdersTO"}
                   ELSE {"Orders", "Zones"}

\* CREATE TABLE names returned by the DDL script (base tables only).
DDLTables(tn) ==
    IF tn = "acme" THEN {"Orders", "Zones", "Notes", "Hidden"}
                   ELSE {"Orders", "Zones", "Hidden"}

Row(pk, d, status, amount, src) ==
    [pk |-> pk, D |-> d, Status |-> status, Amount |-> amount, src |-> src]

\* Rows held by the server of tenant tn, in primary-key order.  src names
\* the server a row came from.
ServerRows(tn, table) ==
    IF table = "Orders" THEN
        IF tn = "acme"
        THEN <<Row(1, 1, "A", 5, tn), Row(2, 2, "B", 7, tn), Row(3, Today, "A", 7, tn)>>
        ELSE <<Row(1, 2, "B", 5, tn), Row(4, MaxDay, "A", 9, tn)>>
    ELSE IF table = "Zones" THEN
        IF tn = "acme"
        THEN <<Row(1, NoDate, "A", 1, tn), Row(2, NoDate, "B", 1, tn), Row(3, NoDate, "A", 2, tn)>>
        ELSE <<Row(1, NoDate, "B", 1, tn)>>
    ELSE IF table = "Notes" THEN <<Row(1, NoDate, "A", 1, tn)>>
    ELSE <<>>

\* Columns of the frames built from a table's rows.
Columns(table) ==
    IF table = "Orders" THEN {"_kp_id", "D", "Status", "Amount"}
    ELSE {"PrimaryKey", "Status", "Amount"}

Ctx(table, field, ctype, context) ==
    [table |-> table, field |-> field, ctype |-> ctype, context |-> context]

\* The context text of a value_map record: the JSON object {"A": "Active"}.
ValueMapJson == "{A: Active}"

InitialRemoteCtx ==
    <<Ctx("Orders", "D", "cache_config", "date_key"),
      Ctx("Zones", "", "cache_config", "cache_all"),
      Ctx("Orders", "Status", "value_map", ValueMapJson)>>

SaveInputs ==
    {Ctx("Notes", "", "cache_config", "cache_all"),
     Ctx("Notes", "", "cache_config", "off"),
     Ctx("Orders", "D", "cache_config", "date_key")}

----------------------------------------------------------------------------
(* Remote outcomes and their classification by FMODataClient *)

\* "transport" is an httpx transport error other than ConnectError: the
\* connection dropped while the response is read (ReadError), a protocol
\* error, or a timeout on a request that carries one.
Failures == {"connect", "transport", "401", "404", "500"}
RowOutcomes == {"ok"} \cup Failures
DocOutcomes == {"ok", "ok_empty"} \cup Failures

\* The exception FMODataClient.get/post/patch/delete raises for an outcome.
\* Only httpx.ConnectError and httpx.HTTPStatusError are converted; any
\* other transport error leaves get/post/patch/delete as it is.
_handle_request_error(o) ==
    CASE o = "connect" -> "ConnectionError"
      [] o = "401"     -> "PermissionError"
      [] o = "404"     -> "ValueError:not found"
      [] o = "500"     -> "ValueError"
      [] o = "transport" -> "TransportError"
      [] OTHER         -> ""

\* A log entry: a remote request sent with the credentials of tenant tn, or
\* (Ev) a local step of the tenant controller.
Req(ev, path, kind, flt, gmin, gmax, skip, tn) ==
    [ev |-> ev, path |-> path, kind |-> kind, flt |-> flt, gmin |-> gmin,
     gmax |-> gmax, skip |-> skip, tenant |-> tn, outcome |-> "pending"]

Get(path, kind, tn) == Req("GET", path, kind, 1, NoDate, NoDate, 0, tn)

Ev(ev, tn) == Req(ev, "", "local", 1, NoDate, NoDate, 0, tn)

IsRequest(e) == e.ev \in {"GET", "POST", "PATCH", "DELETE"}

Last(s) == s[Len(s)]

----------------------------------------------------------------------------
(* Schema store (ddl.py) *)

SameKey(a, b) == a.table = b.table /\ a.field = b.field /\ a.ctype = b.ctype

NoPolicy == [mode |-> "none", date_field |-> ""]

RECURSIVE CacheConfigFrom(_, _, _)
CacheConfigFrom(ctx, table, i) ==
    IF i > Len(ctx) THEN NoPolicy
    ELSE IF ctx[i].table = table /\ ctx[i].ctype = "cache_config" /\ ctx[i].context = "date_key"
         THEN [mode |-> "date_range", date_field |-> ctx[i].field]
    ELSE IF ctx[i].table = table /\ ctx[i].ctype = "cache_config" /\ ctx[i].context = "cache_all"
         THEN [mode |-> "cache_all", date_field |-> ""]
    ELSE CacheConfigFrom(ctx, table, i + 1)

\* First cache_config entry of the table, in dict order, that carries a
\* recognized value; NoPolicy stands for None.
get_cache_config(table) == CacheConfigFrom(DDL_CONTEXT, table, 1)

\* The context text stored under (table, field, context type); "" stands
\* for None.
get_context_value(table, context_type, field) ==
    LET S == {i \in 1..Len(DDL_CONTEXT) :
                 SameKey(DDL_CONTEXT[i], [table |-> table, field |-> field,
                                          ctype |-> context_type])}
    IN  IF S = {} THEN "" ELSE DDL_CONTEXT[CHOOSE i \in S : TRUE].context

\* Name of the PK-flagged field of the table's descriptor ("_kp_id" carries
\* the flag by its prefix), else the literal "PrimaryKey".
get_pk_field(table) ==
    IF table \in TABLES /\ "_kp_id" \in Columns(table) THEN "_kp_id" ELSE "PrimaryKey"

HasKey(ctx, rec) == \E i \in 1..Len(ctx) : SameKey(ctx[i], rec)

\* dict assignment: an existing key keeps its position, a new key is appended.
Upsert(ctx, rec) ==
    IF HasKey(ctx, rec)
    THEN [i \in 1..Len(ctx) |-> IF SameKey(ctx[i], rec) THEN rec ELSE ctx[i]]
    ELSE Append(ctx, rec)

RECURSIVE update_context(_, _)
update_context(ctx, records) ==
    IF records = <<>> THEN ctx
    ELSE update_context(Upsert(ctx, Head(records)), Tail(records))

remove_context(ctx, rec) ==
    LET Keep(e) == ~SameKey(e, rec) IN SelectSeq(ctx, Keep)

----------------------------------------------------------------------------
(* Filters.  A filter is a sequence of comparison clauses, each with the   *)
(* connective that precedes it.  Field names are single unquoted words.    *)

Cl(conn, field, op, vk, s, n, form) ==
    [conn |-> conn, field |-> field, op |-> op, vk |-> vk, s |-> s, n |-> n, form |-> form]

DateCl(conn, op, d, form) == Cl(conn, "D", op, "date", "", d, form)
StrCl(conn, field, op, s) == Cl(conn, field, op, "str", s, 0, "")
NumCl(conn, field, op, n) == Cl(conn, field, op, "num", "", n, "")

\* The filters a caller may pass; Filters[1] is the empty filter.
Filters ==
    << <<>>,
       <<DateCl("", "ge", 1, "iso"), DateCl("and", "le", 2, "quoted")>>,
       <<DateCl("", "ge", 2, "iso")>>,
       <<DateCl("", "gt", 1, "iso"), DateCl("and", "lt", Today, "iso")>>,
       <<DateCl("", "eq", 2, "stamp")>>,
       <<StrCl("", "Status", "eq", "A")>>,
       <<StrCl("", "Status", "eq", "A"), StrCl("or", "Status", "eq", "B")>>,
       <<DateCl("", "le", 2, "iso"), NumCl("and", "Amount", "gt", 5)>>,
       <<NumCl("", "Amount", "ge", 7), StrCl("and", "Status", "ne", "A")>>,
       <<DateCl("", "eq", 1, "iso")>>,
       <<DateCl("", "eq", Today, "iso")>> >>

\* The two single-day filters, passed by calls that overlap.
OverlapFilterIds == {Len(Filters) - 1, Len(Filters)}

FilterIds == (1..Len(Filters)) \ OverlapFilterIds

\* The ways a date value is written in a filter string: bare ISO date,
\* ISO date or timestamp in quotes, ISO timestamp, U.S. date (with or
\* without a clock time after a blank), and a U.S. date followed by a
\* T-timestamp suffix, each bare or in quotes.
DateForms ==
    {"iso", "quoted", "stamp", "quoted_stamp", "us", "quoted_us", "us_stamp",
     "quoted_us_stamp"}

\* Pass 1: strip the quotes around an ISO date, with its T-suffix if any.
StripQuotedIso(form) == IF form \in {"quoted", "quoted_stamp"} THEN "iso" ELSE form

\* Pass 2: _ISO_TIMESTAMP_RE cuts the time off an ISO timestamp.
StripTimestamp(form) == IF form = "stamp" THEN "iso" ELSE form

\* Pass 3: _US_DATE_RE rewrites the U.S. date; quotes and a T-suffix around
\* it stay where they are.
UsToIso(form) ==
    CASE form = "us"              -> "iso"
      [] form = "quoted_us"       -> "quoted"
      [] form = "us_stamp"        -> "stamp"
      [] form = "quoted_us_stamp" -> "quoted_stamp"
      [] OTHER                    -> form

\* Pass 4: strip the quotes that surround a bare ISO date.
StripQuotes(form) == IF form = "quoted" THEN "iso" ELSE form

NormalizeForm(form) == StripQuotes(UsToIso(StripTimestamp(StripQuotedIso(form))))

\* normalize_dates_in_filter: the four substitutions, in order, on every
\* date written in the filter; nothing else changes.
normalize_dates_in_filter(f) ==
    [i \in 1..Len(f) |->
        IF f[i].vk = "date" THEN [f[i] EXCEPT !.form = NormalizeForm(f[i].form)] ELSE f[i]]

\* The field name _DATE_RANGE_RE captures in front of the operator: (\w+)
\* stops at a blank, so of a name with a space it takes the last word.
MatchedField(field) == IF field = "Service Date" THEN "Date" ELSE field

RECURSIVE ExtractFrom(_, _, _, _, _)
ExtractFrom(f, date_field, i, lower, upper) ==
    IF i > Len(f) THEN <<lower, upper>>
    ELSE LET c == f[i]
             hit == /\ c.vk = "date" /\ c.form \in {"iso", "stamp"}
                    /\ MatchedField(c.field) = date_field
         IN  IF hit /\ c.op = "eq" THEN ExtractFrom(f, date_field, i + 1, c.n, c.n)
             ELSE IF hit /\ c.op \in {"ge", "gt"} THEN ExtractFrom(f, date_field, i + 1, c.n, upper)
             ELSE IF hit /\ c.op \in {"le", "lt"} THEN ExtractFrom(f, date_field, i + 1, lower, c.n)
             ELSE ExtractFrom(f, date_field, i + 1, lower, upper)

\* _DATE_RANGE_RE matches "field (ge|gt|le|lt|eq) YYYY-MM-DD"; the last match
\* of each side wins, gt counts as ge and lt as le.
extract_date_range(f, date_field) ==
    IF f = <<>> \/ date_field = "" THEN <<NoDate, NoDate>>
    ELSE ExtractFrom(f, date_field, 1, NoDate, NoDate)

Junk == "<words>"

\* Last clause of the run of text that starts at clause i: the field group
\* of _NON_DATE_FILTER_RE is greedy over word characters and white space,
\* so it runs through numeric values and connectives and stops only at a
\* quote or at the dash of a date literal.
RECURSIVE RunEnd(_, _)
RunEnd(f, i) == IF i = Len(f) \/ f[i].vk # "num" THEN i ELSE RunEnd(f, i + 1)

RECURSIVE NonDateFrom(_, _, _)
NonDateFrom(f, date_field, i) ==
    IF i > Len(f) THEN <<>>
    ELSE LET j == RunEnd(f, i)
             \* group 1 is a bare field name only for a first clause that
             \* is a run of its own; otherwise it holds the preceding words
             field == IF i = 1 /\ j = 1 THEN f[1].field ELSE Junk
             m == [f[j] EXCEPT !.field = field]
             rest == NonDateFrom(f, date_field, j + 1)
         IN  IF field = date_field THEN rest ELSE <<m>> \o rest

_extract_non_date_filters(f, date_field) == NonDateFrom(f, date_field, 1)

Col(row, name) ==
    CASE name = "D" -> row.D
      [] name = "Amount" -> row.Amount
      [] OTHER -> row.pk

\* df[field].astype(str) == value
StrEq(row, c) ==
    CASE c.field = "Status" -> c.vk = "str" /\ row.Status = c.s
      [] c.field = "D" -> FALSE
      [] OTHER -> c.vk = "num" /\ Col(row, c.field) = c.n

\* pd.to_numeric(df[field], errors="coerce") <op> float(value)
NumCmp(row, c) ==
    IF c.field = "Status" THEN FALSE
    ELSE LET x == Col(row, c.field)
         IN  CASE c.vk = "date" -> c.op \in {"lt", "le"}
               [] c.op = "gt" -> x > c.n
               [] c.op = "ge" -> x >= c.n
               [] c.op = "lt" -> x < c.n
               [] OTHER -> x <= c.n

ApplyClause(rows, c, table, ops) ==
    IF c.field \notin Columns(table) \/ c.op \notin ops THEN rows
    ELSE IF c.op = "eq" THEN LET T(r) == StrEq(r, c) IN SelectSeq(rows, T)
    ELSE IF c.op = "ne" THEN LET T(r) == ~StrEq(r, c) IN SelectSeq(rows, T)
    ELSE IF c.vk = "str" THEN rows
    ELSE LET T(r) == NumCmp(r, c) IN SelectSeq(rows, T)

RECURSIVE ApplyClauses(_, _, _, _)
ApplyClauses(rows, cs, table, ops) ==
    IF cs = <<>> THEN rows
    ELSE ApplyClauses(ApplyClause(rows, Head(cs), table, ops), Tail(cs), table, ops)

AllOps == {"eq", "ne", "gt", "ge", "lt", "le"}

_apply_filters_to_df(rows, f, date_field, table, req_min, req_max) ==
    IF f = <<>> THEN rows
    ELSE LET hasDate == date_field \in Columns(table)
             GeMin(r) == Col(r, date_field) >= req_min
             LeMax(r) == Col(r, date_field) <= req_max
             r1 == IF req_min # NoDate /\ hasDate THEN SelectSeq(rows, GeMin) ELSE rows
             r2 == IF req_max # NoDate /\ hasDate THEN SelectSeq(r1, LeMax) ELSE r1
         IN  ApplyClauses(r2, _extract_non_date_filters(f, date_field), table, AllOps)

\* The cache_all branch of query_records applies eq and ne clauses only,
\* extracted from the filter as the caller wrote it.
ApplyCacheAllFilter(rows, f, table) ==
    ApplyClauses(rows, _extract_non_date_filters(f, ""), table, {"eq", "ne"})

----------------------------------------------------------------------------
(* Table cache (analytics.py) *)

\* DatasetEntry; loaded_at is not modelled.
Entry(df, table, date_field, date_min, date_max, pk_field) ==
    [df |-> df, table |-> table, row_count |-> Len(df), date_field |-> date_field,
     date_min |-> date_min, date_max |-> date_max, pk_field |-> pk_field]

\* Absence of a key in _table_cache or _datasets.
NoEntry == Entry(<<>>, "", "", NoDate, NoDate, "")

\* Variant: a requested end equal to the cached end counts as uncovered.
compute_date_gaps_refetches_end(existing_min, existing_max, requested_min, requested_max) ==
    IF existing_min = NoDate \/ existing_max = NoDate
    THEN << <<requested_min, requested_max>> >>
    ELSE LET left  == IF requested_min # NoDate /\ requested_min < existing_min
                      THEN << <<requested_min, existing_min - 1>> >>
                      ELSE IF requested_min = NoDate
                      THEN << <<NoDate, existing_min - 1>> >>
                      ELSE <<>>
             right == IF requested_max # NoDate /\ requested_max >= existing_max
                      THEN << <<existing_max, requested_max>> >>
                      ELSE IF requested_max = NoDate
                      THEN << <<existing_max + 1, NoDate>> >>
                      ELSE <<>>
         IN  left \o right

compute_date_gaps(existing_min, existing_max, requested_min, requested_max) ==
    IF existing_min = NoDate \/ existing_max = NoDate
    THEN << <<requested_min, requested_max>> >>
    ELSE LET left  == IF requested_min # NoDate /\ requested_min < existing_min
                      THEN << <<requested_min, existing_min - 1>> >>
                      ELSE IF requested_min = NoDate
                      THEN << <<NoDate, existing_min - 1>> >>
                      ELSE <<>>
             right == IF requested_max # NoDate /\ requested_max > existing_max
                      THEN << <<existing_max + 1, requested_max>> >>
                      ELSE IF requested_max = NoDate
                      THEN << <<existing_max + 1, NoDate>> >>
                      ELSE <<>>
         IN  left \o right

\* drop_duplicates(subset=[pk_field], keep="last")
drop_duplicates(rows) ==
    LET idx == {i \in 1..Len(rows) : \A j \in (i + 1)..Len(rows) : rows[j].pk # rows[i].pk}
        RECURSIVE Pick(_)
        Pick(i) == IF i > Len(rows) THEN <<>>
                   ELSE IF i \in idx THEN <<rows[i]>> \o Pick(i + 1)
                   ELSE Pick(i + 1)
    IN  Pick(1)

\* sort_values(date_field, ascending=False): the latest date first, rows of
\* one date in their frame order.
RECURSIVE SortDesc(_)
SortDesc(rows) ==
    IF rows = <<>> THEN <<>>
    ELSE LET top == CHOOSE i \in 1..Len(rows) :
                        /\ \A j \in 1..Len(rows) : rows[j].D <= rows[i].D
                        /\ \A j \in 1..(i - 1) : rows[j].D < rows[i].D
             rest == [k \in 1..(Len(rows) - 1) |-> IF k < top THEN rows[k] ELSE rows[k + 1]]
         IN  <<rows[top]>> \o SortDesc(rest)

_enforce_row_limit(rows, date_field, table) ==
    IF Len(rows) <= MAX_ROWS_PER_TABLE THEN rows
    ELSE IF date_field # "" /\ date_field \in Columns(table)
         THEN SubSeq(SortDesc(rows), 1, MAX_ROWS_PER_TABLE)
         ELSE SubSeq(rows, Len(rows) - MAX_ROWS_PER_TABLE + 1, Len(rows))

MinDate(a, b) == IF a < b THEN a ELSE b
MaxDate(a, b) == IF a > b THEN a ELSE b

\* The cache after merge_into_table_cache(table, new_df, ...).
merge_into_table_cache(cache, table, new_df, date_field, pk_field, date_min, date_max) ==
    IF cache[table] = NoEntry
    THEN [cache EXCEPT ![table] =
             Entry(_enforce_row_limit(new_df, date_field, table), table, date_field,
                   date_min, date_max, pk_field)]
    ELSE LET existing == cache[table]
             concat   == existing.df \o new_df
             deduped  == IF pk_field \in Columns(table) THEN drop_duplicates(concat) ELSE concat
             combined == _enforce_row_limit(deduped, date_field, table)
             new_min  == IF existing.date_min # NoDate /\ date_min # NoDate
                         THEN MinDate(existing.date_min, date_min)
                         ELSE IF existing.date_min # NoDate THEN existing.date_min
                         ELSE date_min
             new_max  == IF existing.date_max # NoDate /\ date_max # NoDate
                         THEN MaxDate(existing.date_max, date_max)
                         ELSE IF existing.date_max # NoDate THEN existing.date_max
                         ELSE date_max
         IN  [cache EXCEPT ![table] =
                 [existing EXCEPT !.df = combined, !.row_count = Len(combined),
                                  !.date_min = new_min, !.date_max = new_max]]

----------------------------------------------------------------------------
(* What a server answers to a page request *)

\* Rows matching the gap filter '"D" ge gap_min and "D" le gap_max'; an
\* absent bound contributes no clause.
GapRows(rows, gmin, gmax) ==
    LET T(r) == (gmin = NoDate \/ r.D >= gmin) /\ (gmax = NoDate \/ r.D <= gmax)
    IN  SelectSeq(rows, T)

\* $top=PageSize, $skip=skip
Page(rows, skip) ==
    SubSeq(rows, skip + 1, IF skip + PageSize < Len(rows) THEN skip + PageSize ELSE Len(rows))

\* One comparison as the server evaluates it: eq and ne on any value, the
\* ordering operators on numbers and dates, each strict or inclusive.
HoldsClause(r, c) ==
    IF c.field = "Status"
    THEN CASE c.op = "eq" -> c.vk = "str" /\ r.Status = c.s
           [] c.op = "ne" -> ~(c.vk = "str" /\ r.Status = c.s)
           [] OTHER -> FALSE
    ELSE LET x == Col(r, c.field)
         IN  CASE c.op = "eq" -> x = c.n
               [] c.op = "ne" -> x # c.n
               [] c.op = "gt" -> x > c.n
               [] c.op = "ge" -> x >= c.n
               [] c.op = "lt" -> x < c.n
               [] OTHER -> x <= c.n

\* $filter with top-level connectives: "and" binds tighter than "or".
Holds(r, f) ==
    \/ f = <<>>
    \/ \E i \in 1..Len(f) :
         /\ i = 1 \/ f[i].conn = "or"
         /\ \A j \in i..Len(f) :
              (\A k \in (i + 1)..j : f[k].conn = "and") => HoldsClause(r, f[j])

ServerFilter(rows, f) == LET T(r) == Holds(r, f) IN SelectSeq(rows, T)

----------------------------------------------------------------------------
(* Task state *)

NoCtx == Ctx("", "", "", "")

\* The groupby, aggregate, period and pivot_column arguments of analyze; ""
\* is the default of each.
Args(groupby, aggregate, period, pivot_column) ==
    [groupby |-> groupby, aggregate |-> aggregate, period |-> period,
     pivot_column |-> pivot_column]

NoArgs == Args("", "", "", "")

IdleTask ==
    [pc |-> "idle", op |-> "", table |-> "", flt |-> 1, name |-> "", rec |-> NoCtx,
     gaps |-> <<>>, acc |-> <<>>, skip |-> 0, date_field |-> "", pk_field |-> "",
     req_min |-> NoDate, req_max |-> NoDate, permitted |-> {}, ddl |-> {},
     result |-> "none", kind |-> "", detail |-> "", rows |-> <<>>, log |-> <<>>,
     args |-> NoArgs, filter_in |-> <<>>, filter_out |-> <<>>,
     range |-> <<NoDate, NoDate>>, max_retries |-> 0, base_delay |-> 0, delays |-> <<>>, calls |-> 0]

\* The operation has returned (result "string") or raised (result "raised");
\* its arguments, outcome and log stay readable until the task's next call.
Finish(tk, result, kind, rows) ==
    [IdleTask EXCEPT !.pc = "done", !.op = tk.op, !.table = tk.table, !.flt = tk.flt,
                     !.name = tk.name, !.rec = tk.rec, !.req_min = tk.req_min,
                     !.req_max = tk.req_max, !.result = result, !.kind = kind,
                     !.rows = rows, !.log = tk.log, !.args = tk.args, !.calls = tk.calls]

Returns(tk, kind) == Finish(tk, "string", kind, <<>>)
Raises(tk, exc) == Finish(tk, "raised", exc, <<>>)

Send(tk, pc, req) == [tk EXCEPT !.pc = pc, !.log = Append(tk.log, req)]

CanBegin(t) ==
    /\ phase = "serving"
    /\ task[t].pc \in {"idle", "done"}
    /\ task[t].calls < MaxCalls

Pending(t) == Last(task[t].log)

\* The task record once its pending request is answered with outcome o:
\* the log keeps whether the request succeeded, came back empty or failed.
Answered(tk, o) ==
    [tk EXCEPT !.log[Len(tk.log)].outcome = IF o \in Failures THEN "failed" ELSE o]

\* The record of a tool call that is starting: the previous call's record
\* is discarded, the number of calls made goes up.
Call(t) == [IdleTask EXCEPT !.calls = task[t].calls + 1]

----------------------------------------------------------------------------
(* _retry_with_backoff (schema.py) around an arbitrary awaited call *)

\* max_retries as bootstrap_ddl passes it for step 1.
DiscoverMaxRetries == 3

\* What the wrapped call does on one attempt: it returns, or raises one of
\* the exception classes the helper tells apart, or some other exception.
_RETRYABLE_ERRORS == {"ConnectionError", "TimeoutException"}
AttemptOutcomes == {"ok", "PermissionError", "ValueError", "OtherError"} \cup _RETRYABLE_ERRORS

RetryInputs == {0, 1, DiscoverMaxRetries} \X {1, 2}

\* Variant: the delay grows by base_delay per attempt instead of doubling.
backoff_delay_linear(base_delay, attempt) == base_delay * (attempt + 1)

\* delay = base_delay * (2**attempt)
backoff_delay(base_delay, attempt) == base_delay * 2^attempt

\* _retry_with_backoff up to the await of the first attempt.
retry_with_backoff(t, max_retries, base_delay) ==
    /\ task[t].pc \in {"idle", "done"}
    /\ task[t].calls < MaxCalls
    /\ task' = [task EXCEPT ![t] =
           Send([Call(t) EXCEPT !.op = "_retry_with_backoff", !.max_retries = max_retries,
                                !.base_delay = base_delay],
                "retry_call", Req("CALL", "fn", "attempt", 1, NoDate, NoDate, 0, ""))]
    /\ UNCHANGED <<phase, activeTenant, clientTenant, schemaVars, tableCache, datasets, remoteCtx>>

\* The helper's record when it returns or raises: the parameters and the
\* delays waited stay readable.
RetryFinish(tk, result, kind) ==
    [Finish(tk, result, kind, <<>>) EXCEPT !.max_retries = tk.max_retries,
                                          !.base_delay = tk.base_delay, !.delays = tk.delays]

\* One attempt answered: return its value, sleep before the next attempt,
\* give up with None, or let the exception go.
retry_attempt(t) ==
    /\ task[t].pc = "retry_call"
    /\ \E e \in AttemptOutcomes :
         LET tk == [task[t] EXCEPT !.log[Len(task[t].log)].outcome = e]
             attempt == Len(tk.log) - 1
         IN  task' = [task EXCEPT ![t] =
                 IF e = "ok" THEN RetryFinish(tk, "value", "returned")
                 ELSE IF e \in _RETRYABLE_ERRORS
                 THEN IF attempt < tk.max_retries
                      THEN [tk EXCEPT !.pc = "retry_sleep",
                                      !.delays = Append(tk.delays,
                                                        backoff_delay(tk.base_delay, attempt))]
                      ELSE RetryFinish(tk, "None", "exhausted")
                 ELSE RetryFinish(tk, "raised", e)]
    /\ UNCHANGED <<phase, activeTenant, clientTenant, schemaVars, tableCache, datasets, remoteCtx>>

\* asyncio.sleep(delay) is over: the next attempt is awaited.
retry_wake(t) ==
    /\ task[t].pc = "retry_sleep"
    /\ task' = [task EXCEPT ![t] =
           Send(task[t], "retry_call", Req("CALL", "fn", "attempt", 1, NoDate, NoDate, 0, ""))]
    /\ UNCHANGED <<phase, activeTenant, clientTenant, schemaVars, tableCache, datasets, remoteCtx>>

----------------------------------------------------------------------------
(* The filter helpers called on their own (query.py, dates.py) *)

\* Filter strings with one date comparison, the date written in every form.
NormalizeInputs ==
    {<<DateCl("", op, d, form)>> : op \in {"eq", "ge"}, d \in Days, form \in DateForms}

\* Field names passed to build_period_filter: one word, or two words.
PeriodFields == {"D", "Service Date"}

\* build_period_filter: "f eq a" for a single day, else "f ge a and f le b".
build_period_filter(date_field, start, end) ==
    IF start = end
    THEN <<Cl("", date_field, "eq", "date", "", start, "iso")>>
    ELSE <<Cl("", date_field, "ge", "date", "", start, "iso"),
           Cl("and", date_field, "le", "date", "", end, "iso")>>

\* normalize_dates_in_filter(f); the function awaits nothing.
normalize_call(t, f) ==
    /\ task[t].pc \in {"idle", "done"}
    /\ task[t].calls < MaxCalls
    /\ task' = [task EXCEPT ![t] =
           [Finish([Call(t) EXCEPT !.op = "normalize_dates_in_filter"], "value", "returned", <<>>)
               EXCEPT !.filter_in = f, !.filter_out = normalize_dates_in_filter(f)]]
    /\ UNCHANGED <<phase, activeTenant, clientTenant, schemaVars, tableCache, datasets, remoteCtx>>

\* extract_date_range(build_period_filter(date_field, start, end), date_field).
period_range_call(t, date_field, start, end) ==
    /\ task[t].pc \in {"idle", "done"}
    /\ task[t].calls < MaxCalls
    /\ start <= end
    /\ task' = [task EXCEPT ![t] =
           [Finish([Call(t) EXCEPT !.op = "extract_date_range", !.name = date_field,
                                   !.req_min = start, !.req_max = end],
                   "value", "returned", <<>>)
               EXCEPT !.filter_in = build_period_filter(date_field, start, end),
                      !.range = extract_date_range(
                                    build_period_filter(date_field, start, end), date_field)]]
    /\ UNCHANGED <<phase, activeTenant, clientTenant, schemaVars, tableCache, datasets, remoteCtx>>

----------------------------------------------------------------------------
(* Lifespan, tenant controller (tenant.py) and bootstrap (schema.py) *)

\* Tables whose properties carry annotations in the $metadata document.
AnnotatedTables(tn) == {"Orders"}

merge_discovered_tables(exposed, names) == exposed \cup names

\* bootstrap_ddl has returned: the lifespan starts serving, use_tenant
\* builds its report.
BootstrapReturned(tk) ==
    IF tk.op = "startup" THEN Finish(tk, "none", "started", <<>>) ELSE Returns(tk, "switched")

\* server.lifespan up to its first await: init_tenants, then reset_client,
\* which awaits odata_client.close().
lifespan(t) ==
    /\ phase = "init"
    /\ phase' = "starting"
    /\ activeTenant' = DefaultTenant
    /\ task' = [task EXCEPT ![t] = [IdleTask EXCEPT !.op = "startup", !.pc = "reset_close",
                                                    !.name = DefaultTenant]]
    /\ UNCHANGED <<clientTenant, schemaVars, tableCache, datasets, remoteCtx>>

\* Variant: the exposed-table set survives the switch.
clear_exposed_tables_keeps(exposed) == exposed

\* The exposed-table set after clear_exposed_tables().
clear_exposed_tables(exposed) == {}

\* use_tenant up to its first await.
use_tenant(t, name) ==
    /\ CanBegin(t)
    /\ LET tk == [Call(t) EXCEPT !.op = "use_tenant", !.name = name]
       IN  IF name \notin Tenants
           THEN /\ task' = [task EXCEPT ![t] = Returns(tk, "unknown_tenant")]
                /\ UNCHANGED schemaVars
           ELSE IF name = activeTenant
           THEN /\ task' = [task EXCEPT ![t] = Returns(tk, "already_active")]
                /\ UNCHANGED schemaVars
           ELSE \* clear_tables(); clear_exposed_tables(); clear_schema_cache()
                /\ TABLES' = {}
                /\ FIELD_ANNOTATIONS' = {}
                /\ DDL_CONTEXT' = <<>>
                /\ scriptAvailable' = "unknown"
                /\ EXPOSED_TABLES' = clear_exposed_tables(EXPOSED_TABLES)
                /\ metadataCache' = ""
                /\ UNCHANGED bootstrapError
                /\ task' = [task EXCEPT ![t] =
                       [tk EXCEPT !.pc = "reset_close",
                                  !.log = <<Ev("clear_tables", clientTenant),
                                            Ev("clear_exposed_tables", clientTenant),
                                            Ev("clear_schema_cache", clientTenant)>>]]
    /\ UNCHANGED <<phase, activeTenant, clientTenant, tableCache, datasets, remoteCtx>>

\* reset_client after close() has returned: install the new client; then
\* use_tenant records the active tenant; then bootstrap_ddl sends step 1,
\* the service-document GET of _discover_tables_from_odata.
reset_client(t) ==
    /\ task[t].pc = "reset_close"
    /\ LET tk == task[t]
           recorded == IF tk.op = "use_tenant"
                       THEN <<Ev("reset_client", tk.name), Ev("set_active", tk.name)>>
                       ELSE <<Ev("reset_client", tk.name)>>
       IN  /\ clientTenant' = tk.name
           /\ activeTenant' = IF tk.op = "use_tenant" THEN tk.name ELSE activeTenant
           /\ task' = [task EXCEPT ![t] =
                  Send([tk EXCEPT !.log = tk.log \o recorded], "bs_discover",
                       Get("", "service_document", tk.name))]
    /\ UNCHANGED <<phase, schemaVars, tableCache, datasets, remoteCtx>>

\* Variant: a failed discovery still reports the entity sets.
_discover_tables_from_odata_ignores_failure(o, tn) == ServiceDoc(tn)

\* The entity-set names of the service document; every exception becomes
\* the empty list, so _retry_with_backoff returns after one attempt.
_discover_tables_from_odata(o, tn) == IF o = "ok" THEN ServiceDoc(tn) ELSE {}

\* Step 1 answered.
bootstrap_discover(t) ==
    /\ task[t].pc = "bs_discover"
    /\ \E o \in DocOutcomes :
         LET tk == Answered(task[t], o)
             tn == Pending(t).tenant
             permitted == _discover_tables_from_odata(o, tn)
         IN  IF permitted = {}
             THEN /\ bootstrapError' = IF o \in Failures THEN _handle_request_error(o)
                                       ELSE "OData discovery returned no tables"
                  /\ task' = [task EXCEPT ![t] = BootstrapReturned(tk)]
                  /\ phase' = IF tk.op = "startup" THEN "serving" ELSE phase
                  /\ UNCHANGED EXPOSED_TABLES
             ELSE /\ bootstrapError' = ""
                  /\ IF scriptAvailable = "no"
                     THEN /\ EXPOSED_TABLES' = merge_discovered_tables(EXPOSED_TABLES, permitted)
                          /\ task' = [task EXCEPT ![t] = BootstrapReturned(tk)]
                          /\ phase' = IF tk.op = "startup" THEN "serving" ELSE phase
                     ELSE /\ task' = [task EXCEPT ![t] =
                                 Send([tk EXCEPT !.permitted = permitted], "bs_script",
                                      Req("POST", DDL_SCRIPT, "script", 1, NoDate, NoDate, 0,
                                          clientTenant))]
                          /\ UNCHANGED <<EXPOSED_TABLES, phase>>
    /\ UNCHANGED <<activeTenant, clientTenant, TABLES, FIELD_ANNOTATIONS, DDL_CONTEXT,
                   scriptAvailable, metadataCache, tableCache, datasets, remoteCtx>>

\* Variant: every entity set of the service document is exposed.
intersect_keeps_occurrences(base_set, permitted_set) == permitted_set

\* Step 3: only base tables that are OData-permitted are exposed.
intersect(base_set, permitted_set) == base_set \cap permitted_set

\* Step 2 answered (_fetch_base_table_ddl), then step 3 and the $metadata
\* GET of step 4.  ConnectionError and PermissionError are re-raised.
bootstrap_script(t) ==
    /\ task[t].pc = "bs_script"
    /\ \E o \in DocOutcomes :
         LET tk == Answered(task[t], o)
             tn == Pending(t).tenant
             exc == _handle_request_error(o)
             base_set == DDLTables(tn)
             exposed == intersect(base_set, tk.permitted)
         IN  IF exc \in {"ConnectionError", "PermissionError"}
             THEN /\ task' = [task EXCEPT ![t] = Raises(tk, exc)]
                  /\ phase' = IF tk.op = "startup" THEN "failed" ELSE phase
                  /\ UNCHANGED <<scriptAvailable, EXPOSED_TABLES>>
             ELSE IF o = "ok"
             THEN /\ scriptAvailable' = "yes"
                  /\ EXPOSED_TABLES' = merge_discovered_tables(EXPOSED_TABLES, exposed)
                  /\ task' = [task EXCEPT ![t] =
                         Send([tk EXCEPT !.ddl = base_set], "bs_metadata",
                              Get("$metadata", "metadata", clientTenant))]
                  /\ UNCHANGED phase
             ELSE /\ scriptAvailable' = IF exc = "ValueError:not found" THEN "no"
                                        ELSE scriptAvailable
                  /\ EXPOSED_TABLES' = merge_discovered_tables(EXPOSED_TABLES, tk.permitted)
                  /\ task' = [task EXCEPT ![t] = BootstrapReturned(tk)]
                  /\ phase' = IF tk.op = "startup" THEN "serving" ELSE phase
    /\ UNCHANGED <<activeTenant, clientTenant, TABLES, FIELD_ANNOTATIONS, DDL_CONTEXT,
                   bootstrapError, metadataCache, tableCache, datasets, remoteCtx>>

\* Step 4 answered, then step 5 (parse_ddl, update_tables with the exposed
\* tables only) and the context GET of step 6 (_load_context).
bootstrap_metadata(t) ==
    /\ task[t].pc = "bs_metadata"
    /\ \E o \in DocOutcomes :
         LET tk == Answered(task[t], o)
             tn == Pending(t).tenant
             exposed == tk.ddl \cap tk.permitted
         IN  /\ FIELD_ANNOTATIONS' = IF o = "ok" THEN FIELD_ANNOTATIONS \cup AnnotatedTables(tn)
                                     ELSE FIELD_ANNOTATIONS
             /\ TABLES' = TABLES \cup {k \in tk.ddl : k \in exposed}
             /\ task' = [task EXCEPT ![t] =
                    Send(tk, "bs_context", Get(CONTEXT_TABLE, "context", clientTenant))]
    /\ UNCHANGED <<phase, activeTenant, clientTenant, DDL_CONTEXT, scriptAvailable,
                   EXPOSED_TABLES, bootstrapError, metadataCache, tableCache, datasets,
                   remoteCtx>>

\* Step 6 answered; every exception is logged and swallowed.
bootstrap_context(t) ==
    /\ task[t].pc = "bs_context"
    /\ \E o \in RowOutcomes :
         LET tk == Answered(task[t], o)
             tn == Pending(t).tenant
         IN  /\ DDL_CONTEXT' = IF o = "ok" THEN update_context(DDL_CONTEXT, remoteCtx[tn])
                               ELSE DDL_CONTEXT
             /\ task' = [task EXCEPT ![t] = BootstrapReturned(tk)]
             /\ phase' = IF tk.op = "startup" THEN "serving" ELSE phase
    /\ UNCHANGED <<activeTenant, clientTenant, TABLES, FIELD_ANNOTATIONS, scriptAvailable,
                   EXPOSED_TABLES, bootstrapError, metadataCache, tableCache, datasets,
                   remoteCtx>>

----------------------------------------------------------------------------
(* Query engine (query.py) *)

otherVars == <<phase, activeTenant, clientTenant, schemaVars, remoteCtx>>

\* The fallback path: one GET carrying the caller's filter, normalized and
\* quoted, with $top, $skip, $orderby and $count.
QueryDirect(tk) ==
    Send([tk EXCEPT !.gaps = <<>>, !.acc = <<>>, !.skip = 0], "q_direct",
         Req("GET", tk.table, "direct", tk.flt, NoDate, NoDate, 0, clientTenant))

\* Serve from the date-range cache entry.  orderby, skip/top and select
\* keep their defaults (no order, the first 20 rows, all columns).
ServeDateCache(tk, cache) ==
    Finish(tk, "string", "cache",
           _apply_filters_to_df(cache[tk.table].df, normalize_dates_in_filter(Filters[tk.flt]),
                                tk.date_field, tk.table, tk.req_min, tk.req_max))

ServeCacheAll(tk, cache) ==
    Finish(tk, "string", "cache",
           ApplyCacheAllFilter(cache[tk.table].df, Filters[tk.flt], tk.table))

\* Variant: the gap loop fetches the last gap of the list first.
NextGap_takes_last(tk, cache) ==
    IF tk.gaps # <<>>
    THEN Send([tk EXCEPT !.acc = <<>>, !.skip = 0], "q_gap",
              Req("GET", tk.table, "gap", 1, Last(tk.gaps)[1], Last(tk.gaps)[2], 0,
                  clientTenant))
    ELSE IF cache[tk.table] # NoEntry THEN ServeDateCache(tk, cache)
    ELSE QueryDirect(tk)

\* The gap loop of query_records: send the first page request of the next
\* gap, or leave the loop with all_ok true.
NextGap(tk, cache) ==
    IF tk.gaps # <<>>
    THEN Send([tk EXCEPT !.acc = <<>>, !.skip = 0], "q_gap",
              Req("GET", tk.table, "gap", 1, Head(tk.gaps)[1], Head(tk.gaps)[2], 0,
                  clientTenant))
    ELSE IF cache[tk.table] # NoEntry THEN ServeDateCache(tk, cache)
    ELSE QueryDirect(tk)

\* Variant: the exact-today gap is appended without removing an equal gap.
TodayRefresh_appends_only(gaps) == Append(gaps, <<Today, Today>>)

TodayRefresh(gaps) ==
    LET NotToday(g) == g # <<Today, Today>>
    IN  Append(SelectSeq(gaps, NotToday), <<Today, Today>>)

\* Variant: the guard against unbounded fetches is missing.
use_date_cache_unguarded(cache_config, rng, existing) ==
    cache_config.mode = "date_range"

\* The date-range cache is used only if the filter bounds the date field or
\* an entry exists already.
use_date_cache(cache_config, rng, existing) ==
    /\ cache_config.mode = "date_range"
    /\ rng[1] # NoDate \/ rng[2] # NoDate \/ existing # NoEntry

\* query_records up to its first await, or to its return.
query_records(t, table, f) ==
    /\ CanBegin(t)
    /\ LET tk == [Call(t) EXCEPT !.op = "query_records", !.table = table, !.flt = f]
           cache_config == get_cache_config(table)
           date_field == cache_config.date_field
           normalized_filter == normalize_dates_in_filter(Filters[f])
           rng == extract_date_range(normalized_filter, date_field)
           existing == tableCache[table]
           gaps == IF existing # NoEntry
                   THEN compute_date_gaps(existing.date_min, existing.date_max, rng[1], rng[2])
                   ELSE <<rng>>
           touches_today == rng[2] = NoDate \/ rng[2] >= Today
           tkd == [tk EXCEPT !.date_field = date_field, !.pk_field = get_pk_field(table),
                             !.req_min = rng[1], !.req_max = rng[2],
                             !.gaps = IF existing # NoEntry /\ touches_today
                                      THEN TodayRefresh(gaps) ELSE gaps]
       IN  task' = [task EXCEPT ![t] =
               IF table \notin EXPOSED_TABLES THEN Returns(tk, "unknown_table")
               ELSE IF use_date_cache(cache_config, rng, existing) THEN NextGap(tkd, tableCache)
               ELSE IF cache_config.mode = "cache_all"
               THEN IF tableCache[table] = NoEntry
                    THEN Send([tk EXCEPT !.pk_field = get_pk_field(table)], "q_all",
                              Req("GET", table, "all", 1, NoDate, NoDate, 0, clientTenant))
                    ELSE ServeCacheAll(tk, tableCache)
               ELSE QueryDirect(tk)]
    /\ UNCHANGED <<otherVars, tableCache, datasets>>

CaughtByGapFetch == {"ConnectionError", "PermissionError", "ValueError", "ValueError:not found"}

\* _fetch_and_cache_gap resumed with one page; the last page merges the
\* gap into the cache and the gap loop goes on.
query_gap_page(t) ==
    /\ task[t].pc = "q_gap"
    /\ \E o \in RowOutcomes :
         LET tk == Answered(task[t], o)
             req == Pending(t)
             exc == _handle_request_error(o)
             records == Page(GapRows(ServerRows(req.tenant, tk.table), req.gmin, req.gmax),
                             req.skip)
             all_records == tk.acc \o records
             merged == IF all_records # <<>>
                       THEN merge_into_table_cache(tableCache, tk.table, all_records,
                                tk.date_field, tk.pk_field, req.gmin, req.gmax)
                       ELSE tableCache
         IN  IF o = "ok" /\ Len(records) < PageSize
             THEN /\ tableCache' = merged
                  /\ task' = [task EXCEPT ![t] = NextGap([tk EXCEPT !.gaps = Tail(tk.gaps)], merged)]
             ELSE IF o = "ok"
             THEN /\ task' = [task EXCEPT ![t] =
                         Send([tk EXCEPT !.acc = all_records, !.skip = req.skip + PageSize],
                              "q_gap", [req EXCEPT !.skip = req.skip + PageSize,
                                                   !.tenant = clientTenant])]
                  /\ UNCHANGED tableCache
             ELSE IF exc \in CaughtByGapFetch
             THEN /\ task' = [task EXCEPT ![t] = QueryDirect(tk)]
                  /\ UNCHANGED tableCache
             ELSE /\ task' = [task EXCEPT ![t] = Raises(tk, exc)]
                  /\ UNCHANGED tableCache
    /\ UNCHANGED <<otherVars, datasets>>

\* The cache_all fetch resumed with one page; the last page installs the
\* entry (no row limit is applied here).
query_all_page(t) ==
    /\ task[t].pc = "q_all"
    /\ \E o \in RowOutcomes :
         LET tk == Answered(task[t], o)
             req == Pending(t)
             exc == _handle_request_error(o)
             records == Page(ServerRows(req.tenant, tk.table), req.skip)
             all_records == tk.acc \o records
             installed == IF all_records # <<>>
                          THEN [tableCache EXCEPT ![tk.table] =
                                   Entry(all_records, tk.table, "", NoDate, NoDate, tk.pk_field)]
                          ELSE tableCache
             After(cache) == IF cache[tk.table] # NoEntry THEN ServeCacheAll(tk, cache)
                             ELSE QueryDirect(tk)
         IN  IF o = "ok" /\ Len(records) < PageSize
             THEN /\ tableCache' = installed
                  /\ task' = [task EXCEPT ![t] = After(installed)]
             ELSE IF o = "ok"
             THEN /\ task' = [task EXCEPT ![t] =
                         Send([tk EXCEPT !.acc = all_records, !.skip = req.skip + PageSize],
                              "q_all", [req EXCEPT !.skip = req.skip + PageSize,
                                                   !.tenant = clientTenant])]
                  /\ UNCHANGED tableCache
             ELSE IF exc \in CaughtByGapFetch
             THEN /\ task' = [task EXCEPT ![t] = After(tableCache)]
                  /\ UNCHANGED tableCache
             ELSE /\ task' = [task EXCEPT ![t] = Raises(tk, exc)]
                  /\ UNCHANGED tableCache
    /\ UNCHANGED <<otherVars, datasets>>

\* The direct GET answered: every exception becomes a message.
query_direct(t) ==
    /\ task[t].pc = "q_direct"
    /\ \E o \in RowOutcomes :
         LET tk == Answered(task[t], o)
             req == Pending(t)
         IN  task' = [task EXCEPT ![t] =
                 IF o = "ok"
                 THEN Finish(tk, "string", "direct",
                             ServerFilter(ServerRows(req.tenant, tk.table), Filters[tk.flt]))
                 ELSE Returns(tk, "error")]
    /\ UNCHANGED <<otherVars, tableCache, datasets>>

\* Variant: get_record without the exposed-table check.
get_record_unvalidated(t, table) ==
    /\ CanBegin(t)
    /\ LET tk == [Call(t) EXCEPT !.op = "get_record", !.table = table]
       IN  task' = [task EXCEPT ![t] =
               Send([tk EXCEPT !.pk_field = "PrimaryKey"], "one_get",
                    Get(table, "record", clientTenant))]
    /\ UNCHANGED <<otherVars, tableCache, datasets>>

\* get_record and count_records: validate, one GET, every exception caught.
\* Called without id_field, get_record filters on the literal PrimaryKey
\* (pk_field = id_field or "PrimaryKey").
get_record(t, table) ==
    /\ CanBegin(t)
    /\ LET tk == [Call(t) EXCEPT !.op = "get_record", !.table = table]
       IN  task' = [task EXCEPT ![t] =
               IF table \notin EXPOSED_TABLES THEN Returns(tk, "unknown_table")
               ELSE Send([tk EXCEPT !.pk_field = "PrimaryKey"], "one_get",
                         Get(table, "record", clientTenant))]
    /\ UNCHANGED <<otherVars, tableCache, datasets>>

count_records(t, table) ==
    /\ CanBegin(t)
    /\ LET tk == [Call(t) EXCEPT !.op = "count_records", !.table = table]
       IN  task' = [task EXCEPT ![t] =
               IF table \notin EXPOSED_TABLES THEN Returns(tk, "unknown_table")
               ELSE Send(tk, "one_get", Get(table, "count", clientTenant))]
    /\ UNCHANGED <<otherVars, tableCache, datasets>>

single_get(t) ==
    /\ task[t].pc = "one_get"
    /\ \E o \in RowOutcomes :
         task' = [task EXCEPT ![t] =
                     Returns(Answered(task[t], o), IF o = "ok" THEN "direct" ELSE "error")]
    /\ UNCHANGED <<otherVars, tableCache, datasets>>

\* Variant: the listing is returned whatever start-up recorded.
list_tables_hides_error(t) ==
    /\ CanBegin(t)
    /\ task' = [task EXCEPT ![t] = Returns([Call(t) EXCEPT !.op = "list_tables"], "tables")]
    /\ UNCHANGED <<otherVars, tableCache, datasets>>

\* The diagnostic message embeds _bootstrap_error (detail); the listing
\* carries none.
list_tables(t) ==
    /\ CanBegin(t)
    /\ task' = [task EXCEPT ![t] =
           LET tk == [Call(t) EXCEPT !.op = "list_tables"]
           IN  IF EXPOSED_TABLES = {} /\ bootstrapError # ""
               THEN [Returns(tk, "bootstrap_error") EXCEPT !.detail = bootstrapError]
               ELSE Returns(tk, "tables")]
    /\ UNCHANGED <<otherVars, tableCache, datasets>>

----------------------------------------------------------------------------
(* Schema tool (schema.py) *)

\* Variant: the refresh posts the script whatever the availability flag says.
get_schema_ignores_flag(t, table, refresh) ==
    /\ CanBegin(t)
    /\ LET tk == [Call(t) EXCEPT !.op = "get_schema", !.table = table]
       IN  task' = [task EXCEPT ![t] =
               IF table = "" THEN Returns(tk, "table_list")
               ELSE IF ~refresh /\ table \in TABLES THEN Returns(tk, "schema")
               ELSE Send(tk, "gs_script",
                         Req("POST", DDL_SCRIPT, "script", 1, NoDate, NoDate, 0, clientTenant))]
    /\ UNCHANGED <<otherVars, tableCache, datasets>>

\* get_schema up to its first await: the table list and a cached descriptor
\* need no request; otherwise _refresh_ddl_via_script posts the script, or,
\* the script being known absent, _get_schema_from_metadata gets $metadata.
get_schema(t, table, refresh) ==
    /\ CanBegin(t)
    /\ LET tk == [Call(t) EXCEPT !.op = "get_schema", !.table = table]
       IN  task' = [task EXCEPT ![t] =
               IF table = "" THEN Returns(tk, "table_list")
               ELSE IF ~refresh /\ table \in TABLES THEN Returns(tk, "schema")
               ELSE IF scriptAvailable = "no"
               THEN Send(tk, "gs_metadata", Get("$metadata", "metadata", clientTenant))
               ELSE Send(tk, "gs_script",
                         Req("POST", DDL_SCRIPT, "script", 1, NoDate, NoDate, 0, clientTenant))]
    /\ UNCHANGED <<otherVars, tableCache, datasets>>

\* The script POST of _refresh_ddl_via_script answered: update_tables takes
\* every parsed table.
schema_script(t) ==
    /\ task[t].pc = "gs_script"
    /\ \E o \in DocOutcomes :
         LET tk == Answered(task[t], o)
             tn == Pending(t).tenant
             exc == _handle_request_error(o)
             refreshed == TABLES \cup DDLTables(tn)
         IN  IF exc \in {"ConnectionError", "PermissionError"}
             THEN /\ task' = [task EXCEPT ![t] = Returns(tk, "error")]
                  /\ UNCHANGED <<TABLES, scriptAvailable>>
             ELSE IF o = "ok"
             THEN /\ TABLES' = refreshed
                  /\ scriptAvailable' = "yes"
                  /\ task' = [task EXCEPT ![t] =
                         IF tk.table \in refreshed THEN Returns(tk, "schema")
                         ELSE Send(tk, "gs_metadata",
                                   Get("$metadata", "metadata", clientTenant))]
             ELSE /\ scriptAvailable' = IF exc = "ValueError:not found" THEN "no"
                                        ELSE scriptAvailable
                  /\ task' = [task EXCEPT ![t] =
                         Send(tk, "gs_metadata", Get("$metadata", "metadata", clientTenant))]
                  /\ UNCHANGED TABLES
    /\ UNCHANGED <<phase, activeTenant, clientTenant, FIELD_ANNOTATIONS, DDL_CONTEXT,
                   EXPOSED_TABLES, bootstrapError, metadataCache, tableCache, datasets,
                   remoteCtx>>

\* _get_schema_from_metadata answered.
schema_metadata(t) ==
    /\ task[t].pc = "gs_metadata"
    /\ \E o \in DocOutcomes :
         LET tk == Answered(task[t], o)
             tn == Pending(t).tenant
         IN  /\ metadataCache' = IF o = "ok" THEN tn ELSE metadataCache
             /\ task' = [task EXCEPT ![t] =
                    Returns(tk, IF o = "ok" THEN "schema_metadata" ELSE "error")]
    /\ UNCHANGED <<phase, activeTenant, clientTenant, TABLES, FIELD_ANNOTATIONS, DDL_CONTEXT,
                   scriptAvailable, EXPOSED_TABLES, bootstrapError, tableCache, datasets,
                   remoteCtx>>

----------------------------------------------------------------------------
(* Analytics tools (analytics.py) *)

\* load_dataset up to its first await.
load_dataset(t, name, table, f) ==
    /\ CanBegin(t)
    /\ LET tk == [Call(t) EXCEPT !.op = "load_dataset", !.name = name, !.table = table,
                                  !.flt = f]
       IN  task' = [task EXCEPT ![t] =
               IF table \notin EXPOSED_TABLES THEN Returns(tk, "unknown_table")
               ELSE Send(tk, "ld_page",
                         Req("GET", table, "load", f, NoDate, NoDate, 0, clientTenant))]
    /\ UNCHANGED <<otherVars, tableCache, datasets>>

\* One page of load_dataset answered; the last page stores the frame under
\* the dataset name, an empty result stores nothing.
load_page(t) ==
    /\ task[t].pc = "ld_page"
    /\ \E o \in RowOutcomes :
         LET tk == Answered(task[t], o)
             req == Pending(t)
             records == Page(ServerFilter(ServerRows(req.tenant, tk.table), Filters[tk.flt]),
                             req.skip)
             all_records == tk.acc \o records
         IN  IF o = "ok" /\ Len(records) < PageSize
             THEN IF all_records = <<>>
                  THEN /\ task' = [task EXCEPT ![t] = Returns(tk, "no_records")]
                       /\ UNCHANGED datasets
                  ELSE /\ datasets' = [datasets EXCEPT ![tk.name] =
                              Entry(all_records, tk.table, "", NoDate, NoDate, "PrimaryKey")]
                       /\ task' = [task EXCEPT ![t] = Finish(tk, "string", "loaded", all_records)]
             ELSE IF o = "ok"
             THEN /\ task' = [task EXCEPT ![t] =
                         Send([tk EXCEPT !.acc = all_records, !.skip = req.skip + PageSize],
                              "ld_page", [req EXCEPT !.skip = req.skip + PageSize,
                                                     !.tenant = clientTenant])]
                  /\ UNCHANGED datasets
             ELSE /\ task' = [task EXCEPT ![t] = Returns(tk, "error")]
                  /\ UNCHANGED datasets
    /\ UNCHANGED <<otherVars, tableCache>>

\* {old: new} of a value_map context text as the pair <<old, new>>; None,
\* the empty string and text that is not a JSON object give the empty map.
_parse_value_maps(context_str) ==
    IF context_str = ValueMapJson THEN <<"A", "Active">> ELSE <<>>

\* The mappings of the fields that have one, each <<field, old, new>>.
_collect_value_maps(table, fields) ==
    {<<f>> \o _parse_value_maps(get_context_value(table, "value_map", f)) :
        f \in {g \in fields :
                  _parse_value_maps(get_context_value(table, "value_map", g)) # <<>>}}

\* The normalized frame, a copy: the mapped values of Status replaced.
_apply_normalization(df, field_mappings) ==
    [i \in 1..Len(df) |->
        IF \E m \in field_mappings : m[1] = "Status" /\ m[2] = df[i].Status
        THEN [df[i] EXCEPT !.Status =
                 (CHOOSE m \in field_mappings : m[1] = "Status" /\ m[2] = df[i].Status)[3]]
        ELSE df[i]]

\* The branch of analyze that builds the answer, in the order the code
\* tests its arguments: describe, group-by validation, period, pivot, value
\* counts, then grouped or scalar aggregation.  Only the D column of a
\* frame is a datetime column; an empty aggregate makes agg() raise.
analyze_mode(a, columns) ==
    IF a.groupby = "" /\ a.aggregate = "" THEN "describe"
    ELSE IF a.groupby # "" /\ a.groupby \notin columns THEN "error_field"
    ELSE IF a.period # ""
    THEN IF a.groupby = "" THEN "error_period_needs_groupby"
         ELSE IF a.groupby # "D" THEN "error_not_datetime"
         ELSE IF a.aggregate = "" THEN "error_time_series"
         ELSE "time_series"
    ELSE IF a.pivot_column # ""
    THEN IF a.pivot_column \notin columns THEN "error_pivot_column"
         ELSE IF a.groupby = "" THEN "error_pivot_needs_groupby"
         ELSE IF a.aggregate = "" THEN "error_pivot_needs_aggregate"
         ELSE "pivot"
    ELSE IF a.groupby # "" /\ a.aggregate = "" THEN "value_counts"
    ELSE IF a.groupby # "" THEN "grouped"
    ELSE "scalar"

\* The entry analyze reads: a named dataset first, then the table cache.
ResolveEntry(dataset) ==
    IF dataset \in DatasetNames /\ datasets[dataset] # NoEntry THEN datasets[dataset]
    ELSE IF dataset \in CacheKeys /\ tableCache[dataset] # NoEntry THEN tableCache[dataset]
    ELSE NoEntry

\* The frame analyze computes on: a copy of the entry's frame, normalized
\* (on a second copy) when a groupby is given.
WorkingFrame(entry, a) ==
    LET norm_fields == IF a.groupby = "" THEN {}
                       ELSE {a.groupby} \cup (IF a.pivot_column = "" THEN {}
                                              ELSE {a.pivot_column})
    IN  _apply_normalization(entry.df, _collect_value_maps(entry.table, norm_fields))

\* Variant: the normalization writes into the frame of the entry.
analyze_in_place(t, dataset, a) ==
    /\ CanBegin(t)
    /\ LET tk == [Call(t) EXCEPT !.op = "analyze", !.name = dataset, !.args = a]
           entry == ResolveEntry(dataset)
           df == WorkingFrame(entry, a)
       IN  IF entry = NoEntry
           THEN /\ task' = [task EXCEPT ![t] = Returns(tk, "not_found")]
                /\ UNCHANGED <<tableCache, datasets>>
           ELSE /\ task' = [task EXCEPT ![t] =
                       Finish(tk, "string", analyze_mode(a, Columns(entry.table)), df)]
                /\ IF dataset \in DatasetNames /\ datasets[dataset] # NoEntry
                   THEN /\ datasets' = [datasets EXCEPT ![dataset].df = df]
                        /\ UNCHANGED tableCache
                   ELSE /\ tableCache' = [tableCache EXCEPT ![dataset].df = df]
                        /\ UNCHANGED datasets
    /\ UNCHANGED otherVars

\* analyze resolves its entry, computes on a copy of the entry's frame and
\* answers by the branch its arguments select; it sends nothing and stores
\* nothing.  rows is the frame the answer is computed from.
analyze(t, dataset, a) ==
    /\ CanBegin(t)
    /\ LET tk == [Call(t) EXCEPT !.op = "analyze", !.name = dataset, !.args = a]
           entry == ResolveEntry(dataset)
           df == WorkingFrame(entry, a)
       IN  task' = [task EXCEPT ![t] =
               IF entry = NoEntry THEN Returns(tk, "not_found")
               ELSE Finish(tk, "string", analyze_mode(a, Columns(entry.table)), df)]
    /\ UNCHANGED <<otherVars, tableCache, datasets>>

\* Variant: the named datasets are dropped with the table cache.
flush_datasets_drops_named(t, table) ==
    /\ CanBegin(t)
    /\ LET tk == [Call(t) EXCEPT !.op = "flush_datasets", !.table = table]
       IN  IF table = ""
           THEN /\ tableCache' = [k \in CacheKeys |-> NoEntry]
                /\ task' = [task EXCEPT ![t] = Returns(tk, "flushed")]
           ELSE IF table \in CacheKeys /\ tableCache[table] # NoEntry
           THEN /\ tableCache' = [tableCache EXCEPT ![table] = NoEntry]
                /\ task' = [task EXCEPT ![t] = Returns(tk, "flushed")]
           ELSE /\ task' = [task EXCEPT ![t] = Returns(tk, "nothing_cached")]
                /\ UNCHANGED tableCache
    /\ datasets' = [k \in DatasetNames |-> NoEntry]
    /\ UNCHANGED otherVars

\* flush_datasets: one table-cache entry, or (table = "") all of them.
flush_datasets(t, table) ==
    /\ CanBegin(t)
    /\ LET tk == [Call(t) EXCEPT !.op = "flush_datasets", !.table = table]
       IN  IF table = ""
           THEN /\ tableCache' = [k \in CacheKeys |-> NoEntry]
                /\ task' = [task EXCEPT ![t] = Returns(tk, "flushed")]
           ELSE IF table \in CacheKeys /\ tableCache[table] # NoEntry
           THEN /\ tableCache' = [tableCache EXCEPT ![table] = NoEntry]
                /\ task' = [task EXCEPT ![t] = Returns(tk, "flushed")]
           ELSE /\ task' = [task EXCEPT ![t] = Returns(tk, "nothing_cached")]
                /\ UNCHANGED tableCache
    /\ UNCHANGED <<otherVars, datasets>>

----------------------------------------------------------------------------
(* Context tools (context.py) *)

\* The context table of a server after a PATCH of, or a DELETE of, the
\* first record with the key (the record the lookup with $top=1 returned).
RECURSIVE PatchFirst(_, _)
PatchFirst(ctx, rec) ==
    IF ctx = <<>> THEN <<>>
    ELSE IF SameKey(Head(ctx), rec) THEN <<rec>> \o Tail(ctx)
    ELSE <<Head(ctx)>> \o PatchFirst(Tail(ctx), rec)

RECURSIVE DeleteFirst(_, _)
DeleteFirst(ctx, rec) ==
    IF ctx = <<>> THEN <<>>
    ELSE IF SameKey(Head(ctx), rec) THEN Tail(ctx)
    ELSE <<Head(ctx)>> \o DeleteFirst(Tail(ctx), rec)

ctxUnchanged == <<phase, activeTenant, clientTenant, TABLES, FIELD_ANNOTATIONS,
                  scriptAvailable, EXPOSED_TABLES, bootstrapError, metadataCache,
                  tableCache, datasets>>

\* save_context and delete_context up to the lookup GET.
save_context(t, rec) ==
    /\ CanBegin(t)
    /\ task' = [task EXCEPT ![t] =
           Send([Call(t) EXCEPT !.op = "save_context", !.rec = rec], "sc_lookup",
                Get(CONTEXT_TABLE, "lookup", clientTenant))]
    /\ UNCHANGED <<otherVars, tableCache, datasets>>

delete_context(t, rec) ==
    /\ CanBegin(t)
    /\ task' = [task EXCEPT ![t] =
           Send([Call(t) EXCEPT !.op = "delete_context", !.rec = rec], "dc_lookup",
                Get(CONTEXT_TABLE, "lookup", clientTenant))]
    /\ UNCHANGED <<otherVars, tableCache, datasets>>

\* The lookup answered: PATCH the record found, else POST a new one.
save_lookup(t) ==
    /\ task[t].pc = "sc_lookup"
    /\ \E o \in RowOutcomes :
         LET tk == Answered(task[t], o)
             req == Pending(t)
             found == HasKey(remoteCtx[req.tenant], tk.rec)
         IN  task' = [task EXCEPT ![t] =
                 IF o # "ok" THEN Returns(tk, "error")
                 ELSE Send(tk, "sc_write",
                           Req(IF found THEN "PATCH" ELSE "POST", CONTEXT_TABLE, "write", 1,
                               NoDate, NoDate, 0, clientTenant))]
    /\ UNCHANGED <<otherVars, tableCache, datasets>>

\* Variant: the local cache takes the record whatever the write answered.
save_write_updates_first(t) ==
    /\ task[t].pc = "sc_write"
    /\ \E o \in RowOutcomes :
         LET tk == Answered(task[t], o)
             req == Pending(t)
             stored == remoteCtx[req.tenant]
         IN  /\ DDL_CONTEXT' = update_context(DDL_CONTEXT, <<tk.rec>>)
             /\ IF o = "ok"
                THEN /\ remoteCtx' = [remoteCtx EXCEPT ![req.tenant] =
                            IF req.ev = "PATCH" THEN PatchFirst(stored, tk.rec)
                            ELSE Append(stored, tk.rec)]
                     /\ task' = [task EXCEPT ![t] =
                            Returns(tk, IF req.ev = "PATCH" THEN "updated" ELSE "created")]
                ELSE /\ task' = [task EXCEPT ![t] = Returns(tk, "error")]
                     /\ UNCHANGED remoteCtx
    /\ UNCHANGED ctxUnchanged

\* The write answered: on success the local cache takes the record too.
save_write(t) ==
    /\ task[t].pc = "sc_write"
    /\ \E o \in RowOutcomes :
         LET tk == Answered(task[t], o)
             req == Pending(t)
             stored == remoteCtx[req.tenant]
         IN  IF o = "ok"
             THEN /\ remoteCtx' = [remoteCtx EXCEPT ![req.tenant] =
                         IF req.ev = "PATCH" THEN PatchFirst(stored, tk.rec)
                         ELSE Append(stored, tk.rec)]
                  /\ DDL_CONTEXT' = update_context(DDL_CONTEXT, <<tk.rec>>)
                  /\ task' = [task EXCEPT ![t] =
                         Returns(tk, IF req.ev = "PATCH" THEN "updated" ELSE "created")]
             ELSE /\ task' = [task EXCEPT ![t] = Returns(tk, "error")]
                  /\ UNCHANGED <<remoteCtx, DDL_CONTEXT>>
    /\ UNCHANGED ctxUnchanged

delete_lookup(t) ==
    /\ task[t].pc = "dc_lookup"
    /\ \E o \in RowOutcomes :
         LET tk == Answered(task[t], o)
             req == Pending(t)
         IN  task' = [task EXCEPT ![t] =
                 IF o # "ok" THEN Returns(tk, "error")
                 ELSE IF ~HasKey(remoteCtx[req.tenant], tk.rec)
                 THEN Returns(tk, "nothing_to_delete")
                 ELSE Send(tk, "dc_delete",
                           Req("DELETE", CONTEXT_TABLE, "write", 1, NoDate, NoDate, 0,
                               clientTenant))]
    /\ UNCHANGED <<otherVars, tableCache, datasets>>

delete_write(t) ==
    /\ task[t].pc = "dc_delete"
    /\ \E o \in RowOutcomes :
         LET tk == Answered(task[t], o)
             req == Pending(t)
         IN  IF o = "ok"
             THEN /\ remoteCtx' = [remoteCtx EXCEPT ![req.tenant] =
                         DeleteFirst(remoteCtx[req.tenant], tk.rec)]
                  /\ DDL_CONTEXT' = remove_context(DDL_CONTEXT, tk.rec)
                  /\ task' = [task EXCEPT ![t] = Returns(tk, "deleted")]
             ELSE /\ task' = [task EXCEPT ![t] = Returns(tk, "error")]
                  /\ UNCHANGED <<remoteCtx, DDL_CONTEXT>>
    /\ UNCHANGED ctxUnchanged

----------------------------------------------------------------------------
(* Specification *)

Init ==
    /\ phase = "init"
    /\ activeTenant = ""
    /\ clientTenant = ""
    /\ TABLES = {}
    /\ FIELD_ANNOTATIONS = {}
    /\ DDL_CONTEXT = <<>>
    /\ scriptAvailable = "unknown"
    /\ EXPOSED_TABLES = {}
    /\ bootstrapError = ""
    /\ metadataCache = ""
    /\ tableCache = [k \in CacheKeys |-> NoEntry]
    /\ datasets = [k \in DatasetNames |-> NoEntry]
    /\ remoteCtx = [tn \in Tenants |-> InitialRemoteCtx]
    /\ task = [t \in Tasks |-> IdleTask]

\* Arguments of the tool calls explored.
QueryInputs ==
    ({"Orders"} \X FilterIds) \cup ({"Zones"} \X {1, 6, 9}) \cup {<<"Notes", 1>>, <<"Nope", 2>>}
OneRecordTables == {"Orders", "Nope"}
LoadInputs == {<<"Orders", 1>>, <<"Orders", 6>>, <<"Zones", 9>>, <<"Nope", 1>>}
AnalyzeInputs ==
    ((DatasetNames \cup {"Orders", "Zones", "Nope"}) \X {NoArgs})
    \cup ({"Orders"} \X {Args("Status", "", "", ""), Args("", "sum:Amount", "", ""),
                         Args("Status", "sum:Amount", "", ""),
                         Args("Status", "sum:Amount", "month", ""),
                         Args("Status", "sum:Amount", "", "Amount"),
                         Args("Status", "", "month", ""), Args("", "sum:Amount", "month", ""),
                         Args("Status", "", "", "Amount"), Args("", "sum:Amount", "", "Amount")})
    \cup {<<"ds", Args("Status", "sum:Amount", "", "")>>}
SchemaTables == {"", "Orders"}
DeleteInputs == {Ctx("Notes", "", "cache_config", "")}

Next ==
    \E t \in Sequential :
        \/ lifespan(t)
        \/ \E name \in TenantNames : use_tenant(t, name)
        \/ reset_client(t)
        \/ bootstrap_discover(t)
        \/ bootstrap_script(t)
        \/ bootstrap_metadata(t)
        \/ bootstrap_context(t)
        \/ \E q \in QueryInputs : query_records(t, q[1], q[2])
        \/ query_gap_page(t)
        \/ query_all_page(t)
        \/ query_direct(t)
        \/ \E table \in OneRecordTables : get_record(t, table)
        \/ \E table \in OneRecordTables : count_records(t, table)
        \/ single_get(t)
        \/ list_tables(t)
        \/ \E table \in SchemaTables, refresh \in BOOLEAN : get_schema(t, table, refresh)
        \/ schema_script(t)
        \/ schema_metadata(t)
        \/ \E name \in DatasetNames, l \in LoadInputs : load_dataset(t, name, l[1], l[2])
        \/ load_page(t)
        \/ \E i \in AnalyzeInputs : analyze(t, i[1], i[2])
        \/ \E table \in {"", "Orders"} : flush_datasets(t, table)
        \/ \E rec \in SaveInputs : save_context(t, rec)
        \/ save_lookup(t)
        \/ save_write(t)
        \/ \E rec \in DeleteInputs : delete_context(t, rec)
        \/ delete_lookup(t)
        \/ delete_write(t)

Spec == Init /\ [][Next]_vars

\* Tool calls that overlap: the event loop resumes either coroutine at each
\* await.
NextConc ==
    \/ lifespan(1)
    \/ \E t \in Tasks :
          \/ reset_client(t)
          \/ bootstrap_discover(t)
          \/ bootstrap_script(t)
          \/ bootstrap_metadata(t)
          \/ bootstrap_context(t)
          \/ \E rec \in SaveInputs : save_context(t, rec)
          \/ save_lookup(t)
          \/ save_write(t)

SpecConc == Init /\ [][NextConc]_vars

\* Queries on the date-range table that overlap with each other and with a
\* tenant switch made by the second caller.
NextOverlap ==
    \/ lifespan(1)
    \/ \E name \in Tenants \ {DefaultTenant} : use_tenant(2, name)
    \/ \E t \in Tasks :
          \/ reset_client(t)
          \/ bootstrap_discover(t)
          \/ bootstrap_script(t)
          \/ bootstrap_metadata(t)
          \/ bootstrap_context(t)
          \/ \E f \in OverlapFilterIds : query_records(t, "Orders", f)
          \/ query_gap_page(t)
          \/ query_direct(t)

SpecOverlap == Init /\ [][NextOverlap]_vars

\* The filters of the queries that overlap with a flush: one day, and a
\* range that holds that day and the next.
FlushFilterIds == {2, Len(Filters) - 1}

\* Queries on the date-range table that overlap with each other and with a
\* flush_datasets call of the second caller.
NextFlush ==
    \/ lifespan(1)
    \/ flush_datasets(2, "Orders")
    \/ \E t \in Tasks :
          \/ reset_client(t)
          \/ bootstrap_discover(t)
          \/ bootstrap_script(t)
          \/ bootstrap_metadata(t)
          \/ bootstrap_context(t)
          \/ \E f \in FlushFilterIds : query_records(t, "Orders", f)
          \/ query_gap_page(t)
          \/ query_direct(t)

SpecFlush == Init /\ [][NextFlush]_vars

\* use_tenant calls of two callers that overlap with each other.
NextSwitch ==
    \/ lifespan(1)
    \/ \E t \in Tasks :
          \/ \E name \in Tenants : use_tenant(t, name)
          \/ reset_client(t)
          \/ bootstrap_discover(t)
          \/ bootstrap_script(t)
          \/ bootstrap_metadata(t)
          \/ bootstrap_context(t)

SpecSwitch == Init /\ [][NextSwitch]_vars

\* _retry_with_backoff around calls that fail in every way.
NextRetry ==
    \E t \in Sequential :
        \/ \E i \in RetryInputs : retry_with_backoff(t, i[1], i[2])
        \/ retry_attempt(t)
        \/ retry_wake(t)

SpecRetry == Init /\ [][NextRetry]_vars

\* The filter helpers applied to every input of the bounded sets.
NextPure ==
    \E t \in Sequential :
        \/ \E f \in NormalizeInputs : normalize_call(t, f)
        \/ \E field \in PeriodFields, a \in Days, b \in Days : period_range_call(t, field, a, b)

SpecPure == Init /\ [][NextPure]_vars

----------------------------------------------------------------------------
(* Properties *)

Done(t) == task[t].pc = "done"

\* The step starts a tool call of task t.
Begins(t) == task'[t].calls = task[t].calls + 1

RequestsOf(log) == {i \in 1..Len(log) : IsRequest(log[i])}

\* C1: after use_tenant has switched to another tenant, the table cache
\* holds no row fetched while the previous tenant was active, and no
\* query_records answer served from the cache and no analyze answer on a
\* cached table is built from rows of a tenant other than the active one.
C1_SwitchLeavesNoStaleCache ==
    \A t \in Tasks :
        /\ (Done(t) /\ task[t].op = "use_tenant" /\ task[t].kind = "switched")
              => \A k \in CacheKeys : \A i \in 1..Len(tableCache[k].df) :
                     tableCache[k].df[i].src = activeTenant
        /\ (Done(t) /\ \/ task[t].op = "query_records" /\ task[t].kind = "cache"
                       \/ task[t].op = "analyze" /\ task[t].name \in CacheKeys)
              => \A i \in 1..Len(task[t].rows) : task[t].rows[i].src = activeTenant

PublicOps ==
    {"query_records", "get_record", "count_records", "list_tables", "get_schema",
     "load_dataset", "analyze", "flush_datasets", "save_context", "delete_context",
     "use_tenant"}

\* C2: every public operation returns a message string whatever its remote
\* calls answer (connection failure, timeout, 401, 404, other HTTP error);
\* none lets an exception reach its caller.
C2_PublicOperationsNeverRaise ==
    \A t \in Tasks : task[t].op \in PublicOps => task[t].result # "raised"

ValidatedOps == {"query_records", "get_record", "count_records", "load_dataset"}

\* C3: called with a table that is not exposed, query_records, get_record,
\* count_records and load_dataset return the unknown-table message in the
\* same step, with no remote request sent and with the table cache and the
\* named datasets unchanged.
C3_UnknownTableRejectedLocally ==
    [][\A t \in Tasks :
          (Begins(t) /\ task'[t].op \in ValidatedOps /\ task'[t].table \notin EXPOSED_TABLES)
             => /\ task'[t].pc = "done"
                /\ task'[t].result = "string"
                /\ task'[t].kind = "unknown_table"
                /\ task'[t].log = <<>>
                /\ tableCache' = tableCache
                /\ datasets' = datasets]_vars

C3_Witness ==
    \E t \in Tasks :
        /\ Done(t) /\ task[t].op = "get_record" /\ task[t].table = "Nope"
        /\ task[t].kind = "unknown_table"
        /\ "Orders" \in EXPOSED_TABLES
        /\ tableCache["Orders"] # NoEntry

\* C4: a date-range query one of whose gap fetches failed is answered by a
\* direct remote call carrying the caller's filter, never from the cache.
C4_FailedGapAnsweredDirectly ==
    \A t \in Tasks :
        (/\ Done(t) /\ task[t].op = "query_records"
         /\ \E i \in 1..Len(task[t].log) :
                task[t].log[i].kind = "gap" /\ task[t].log[i].outcome = "failed")
           => /\ task[t].result = "string"
              /\ task[t].kind # "cache"
              /\ Last(task[t].log).kind = "direct"
              /\ Last(task[t].log).flt = task[t].flt

\* C5: on a table with a date-range policy, a filter that bounds the date
\* field on neither side and an absent cache entry make query_records send
\* exactly one request, the direct one, with no gap fetch and no cache entry
\* created up to its return.
C5_UnboundedFilterBypassesCache ==
    [][\A t \in Tasks :
          LET tk  == task'[t]
              cfg == get_cache_config(tk.table)
              rng == extract_date_range(normalize_dates_in_filter(Filters[tk.flt]),
                                        cfg.date_field)
          IN  /\ (/\ Begins(t) /\ tk.op = "query_records" /\ tk.table \in EXPOSED_TABLES
                  /\ cfg.mode = "date_range"
                  /\ rng = <<NoDate, NoDate>>
                  /\ tableCache[tk.table] = NoEntry)
                    => /\ tk.pc = "q_direct"
                       /\ tk.log = <<Req("GET", tk.table, "direct", tk.flt, NoDate, NoDate, 0,
                                         clientTenant)>>
                       /\ tableCache' = tableCache
              /\ (task[t].pc = "q_direct" /\ tk # task[t])
                    => /\ tk.pc = "done"
                       /\ Len(tk.log) = Len(task[t].log)
                       /\ tableCache' = tableCache]_vars

C5_Witness ==
    \E t \in Tasks :
        /\ Done(t) /\ task[t].op = "query_records" /\ task[t].table = "Orders"
        /\ task[t].flt = 6 /\ task[t].kind = "direct"
        /\ get_cache_config("Orders").mode = "date_range"
        /\ tableCache["Orders"] = NoEntry

\* C6: when the cached bounds [eMin, eMax] contain the requested range
\* [rMin, rMax] and rMax is before today, compute_date_gaps returns the empty
\* list and query_records answers from the cache without any remote request.
C6_CoveredRangeNeedsNoFetch ==
    [][\A t \in Tasks :
          LET tk  == task'[t]
              cfg == get_cache_config(tk.table)
              rng == extract_date_range(normalize_dates_in_filter(Filters[tk.flt]),
                                        cfg.date_field)
              existing == tableCache[tk.table]
          IN  (/\ Begins(t) /\ tk.op = "query_records" /\ tk.table \in EXPOSED_TABLES
               /\ cfg.mode = "date_range"
               /\ existing # NoEntry
               /\ existing.date_min # NoDate /\ existing.date_max # NoDate
               /\ rng[1] # NoDate /\ rng[2] # NoDate
               /\ existing.date_min <= rng[1] /\ rng[2] <= existing.date_max
               /\ rng[2] < Today)
                 => /\ compute_date_gaps(existing.date_min, existing.date_max,
                                         rng[1], rng[2]) = <<>>
                    /\ tk.pc = "done"
                    /\ tk.kind = "cache"
                    /\ tk.log = <<>>
                    /\ tableCache' = tableCache]_vars

C6_Witness ==
    \E t \in Tasks :
        /\ Done(t) /\ task[t].op = "query_records" /\ task[t].table = "Orders"
        /\ task[t].flt = 2 /\ task[t].kind = "cache" /\ task[t].log = <<>>
        /\ tableCache["Orders"].date_min = 1 /\ tableCache["Orders"].date_max >= 2

\* C7: the rows of an answer served from the cache are exactly the cached
\* rows that satisfy the caller's whole filter, every operator with its own
\* strictness, the and/or connectives as written.
C7_CacheAnswerIsFilteredFrame ==
    \A t \in Tasks :
        (Done(t) /\ task[t].op = "query_records" /\ task[t].kind = "cache")
           => task[t].rows = ServerFilter(tableCache[task[t].table].df, Filters[task[t].flt])

SwitchOrder ==
    <<"clear_tables", "clear_exposed_tables", "clear_schema_cache", "reset_client",
      "set_active">>

\* C8: a switching use_tenant clears the schema store, the exposed-table set
\* and the schema caches, then rebuilds the client, then records the active
\* tenant, then bootstraps: its log follows that order, every request in it
\* comes after the five steps and carries the new tenant's credentials, and
\* the step that installs the new client finds the three stores cleared.
C8_SwitchStepsInOrder ==
    [][\A t \in Tasks :
          /\ task'[t].op = "use_tenant"
                => \A i \in 1..Len(task'[t].log) :
                       IF i <= Len(SwitchOrder)
                       THEN task'[t].log[i].ev = SwitchOrder[i]
                       ELSE /\ IsRequest(task'[t].log[i])
                            /\ task'[t].log[i].tenant = task'[t].name
          /\ (task[t].op = "use_tenant" /\ clientTenant' # clientTenant)
                => /\ TABLES = {} /\ FIELD_ANNOTATIONS = {} /\ DDL_CONTEXT = <<>>
                   /\ EXPOSED_TABLES = {}
                   /\ metadataCache = ""
                   /\ activeTenant # task[t].name
                   /\ clientTenant' = task[t].name
                   /\ activeTenant' = task[t].name]_vars

C8_Witness ==
    \E t \in Tasks :
        /\ Done(t) /\ task[t].op = "use_tenant" /\ task[t].kind = "switched"
        /\ task[t].name = "staging" /\ activeTenant = "staging"
        /\ Len(task[t].log) = Len(SwitchOrder) + 4
        /\ EXPOSED_TABLES = {"Orders", "Zones"}

BootstrapOps == {"startup", "use_tenant"}

\* C9: once the service document has listed entity sets, bootstrap_ddl
\* returns normally whatever fails in steps 2 to 6, so start-up and
\* use_tenant complete.
C9_BootstrapSurvivesLaterFailures ==
    \A t \in Tasks :
        (/\ task[t].op \in BootstrapOps
         /\ \E i \in 1..Len(task[t].log) :
                task[t].log[i].kind = "service_document" /\ task[t].log[i].outcome = "ok")
           => task[t].result # "raised" /\ phase # "failed"

\* C10: when the service-document request fails or lists no entity set,
\* bootstrap records an error, sends no script POST, no metadata GET and no
\* context GET, and the exposed-table set is empty when it returns.
C10_DiscoveryFailureStopsBootstrap ==
    \A t \in Tasks :
        (/\ Done(t) /\ task[t].op \in BootstrapOps
         /\ \E i \in 1..Len(task[t].log) :
                /\ task[t].log[i].kind = "service_document"
                /\ task[t].log[i].outcome \in {"failed", "ok_empty"})
           => /\ bootstrapError # ""
              /\ EXPOSED_TABLES = {}
              /\ \A i \in RequestsOf(task[t].log) : task[t].log[i].kind = "service_document"
              /\ Cardinality(RequestsOf(task[t].log)) = 1

C10_Witness ==
    \E t \in Tasks :
        /\ Done(t) /\ task[t].op = "use_tenant" /\ task[t].name = "staging"
        /\ Last(task[t].log).kind = "service_document"
        /\ Last(task[t].log).outcome = "failed"
        /\ bootstrapError = "TransportError"

\* C11: after a bootstrap whose service-document GET and DDL script POST both
\* succeeded, the exposed-table set is exactly the intersection of the
\* entity-set names and the CREATE TABLE names: table occurrences absent
\* from the DDL and base tables absent from the service document are out.
C11_ExposedIsIntersection ==
    \A t \in Tasks :
        (/\ Done(t) /\ task[t].op \in BootstrapOps
         /\ \E i \in 1..Len(task[t].log) :
                task[t].log[i].kind = "service_document" /\ task[t].log[i].outcome = "ok"
         /\ \E i \in 1..Len(task[t].log) :
                task[t].log[i].kind = "script" /\ task[t].log[i].outcome = "ok")
           => /\ EXPOSED_TABLES = ServiceDoc(clientTenant) \cap DDLTables(clientTenant)
              /\ \A k \in ServiceDoc(clientTenant) \ DDLTables(clientTenant) :
                     k \notin EXPOSED_TABLES
              /\ \A k \in DDLTables(clientTenant) \ ServiceDoc(clientTenant) :
                     k \notin EXPOSED_TABLES

C11_Witness ==
    \E t \in Tasks :
        /\ Done(t) /\ task[t].op = "startup" /\ clientTenant = "acme"
        /\ \E i \in 1..Len(task[t].log) :
               task[t].log[i].kind = "script" /\ task[t].log[i].outcome = "ok"
        /\ EXPOSED_TABLES = {"Orders", "Zones", "Notes"}
        /\ "OrdersTO" \in ServiceDoc("acme") /\ "Hidden" \in DDLTables("acme")

\* C12: a bootstrap whose step 1 fails or lists nothing records an error and
\* leaves no exposed table, nothing but the next bootstrap's step 1 changes
\* that record, and a step 1 that succeeds erases it; list_tables returns
\* the diagnostic message carrying the recorded error while one is
\* recorded, and the table listing once it is erased.
C12_ListTablesReportsLastDiscovery ==
    [][/\ \A t \in Tasks :
            (task[t].pc = "bs_discover" /\ task'[t] # task[t])
               => IF task'[t].log[Len(task[t].log)].outcome = "ok"
                  THEN bootstrapError' = ""
                  ELSE bootstrapError' # "" /\ EXPOSED_TABLES' = {}
       /\ (\A t \in Tasks : task[t].pc # "bs_discover")
            => /\ bootstrapError' = bootstrapError
               /\ bootstrapError # "" => EXPOSED_TABLES' = {}
       /\ \A t \in Tasks :
            (Begins(t) /\ task'[t].op = "list_tables")
               => IF bootstrapError # ""
                  THEN /\ task'[t].result = "string"
                       /\ task'[t].kind = "bootstrap_error"
                       /\ task'[t].detail = bootstrapError
                  ELSE task'[t].kind = "tables"]_vars

C12_Witness ==
    \E t \in Tasks :
        /\ Done(t) /\ task[t].op = "list_tables" /\ task[t].kind = "bootstrap_error"
        /\ task[t].detail = "ConnectionError"
        /\ activeTenant = "staging"

\* C13: after any sequence of save_context calls, overlapping ones
\* included, the remote context table holds at most one record, and the
\* local context map at most one entry, per (table, field, context type).
C13_OneRecordPerTriple ==
    /\ \A tn \in Tenants : \A i, j \in 1..Len(remoteCtx[tn]) :
           SameKey(remoteCtx[tn][i], remoteCtx[tn][j]) => i = j
    /\ \A i, j \in 1..Len(DDL_CONTEXT) :
           SameKey(DDL_CONTEXT[i], DDL_CONTEXT[j]) => i = j

ContextOps == {"save_context", "delete_context"}

\* C14: a step of save_context or delete_context changes the local context
\* map only when it resumes from the remote write (PATCH, POST or DELETE)
\* answered with success: the saved record is then in the map, the deleted
\* triple out of it.  A remote request that failed ends the call with an
\* error string and the local map as it was.
C14_LocalMapFollowsRemoteWrite ==
    [][\A t \in Tasks :
          (task'[t].op \in ContextOps /\ task'[t] # task[t])
             => LET answered == IF task[t].pc \in {"idle", "done"} THEN "none"
                                ELSE task'[t].log[Len(task[t].log)].outcome
                IN  /\ DDL_CONTEXT' # DDL_CONTEXT
                          => /\ task[t].pc \in {"sc_write", "dc_delete"}
                             /\ answered = "ok"
                    /\ (task[t].pc = "sc_write" /\ answered = "ok")
                          => /\ \E i \in 1..Len(DDL_CONTEXT') : DDL_CONTEXT'[i] = task[t].rec
                             /\ task'[t].kind \in {"created", "updated"}
                    /\ (task[t].pc = "dc_delete" /\ answered = "ok")
                          => /\ ~HasKey(DDL_CONTEXT', task[t].rec)
                             /\ task'[t].kind = "deleted"
                    /\ answered = "failed"
                          => /\ DDL_CONTEXT' = DDL_CONTEXT
                             /\ remoteCtx' = remoteCtx
                             /\ task'[t].pc = "done"
                             /\ task'[t].result = "string"
                             /\ task'[t].kind = "error"]_vars

C14_Witness ==
    \E t \in Tasks :
        /\ Done(t) /\ task[t].op = "save_context" /\ task[t].kind = "error"
        /\ Last(task[t].log).ev = "POST" /\ Last(task[t].log).outcome = "failed"
        /\ ~HasKey(DDL_CONTEXT, task[t].rec)
        /\ DDL_CONTEXT # <<>>

\* C16: flush_datasets(table) removes that table's entry from the table
\* cache and no other, flush_datasets() removes every table-cache entry,
\* and both leave the named datasets as they were.
C16_FlushTouchesOnlyTableCache ==
    [][\A t \in Tasks :
          (Begins(t) /\ task'[t].op = "flush_datasets")
             => /\ datasets' = datasets
                /\ \A k \in CacheKeys :
                       tableCache'[k] = IF task'[t].table \in {"", k} THEN NoEntry
                                        ELSE tableCache[k]
                /\ task'[t].pc = "done" /\ task'[t].result = "string"]_vars

C16_Witness ==
    \E t \in Tasks :
        /\ Done(t) /\ task[t].op = "flush_datasets" /\ task[t].table = "Orders"
        /\ task[t].kind = "flushed"
        /\ tableCache["Orders"] = NoEntry
        /\ datasets["ds"] # NoEntry

\* C17: once load_dataset has fetched its rows, the entry stored under the
\* dataset name holds those rows and names their table, whatever their
\* number and whatever an earlier load stored under that name.
C17_ReloadReplacesDataset ==
    \A t \in Tasks :
        (/\ Done(t) /\ task[t].op = "load_dataset"
         /\ task[t].kind \in {"loaded", "no_records"}
         /\ datasets[task[t].name] # NoEntry)
           => /\ datasets[task[t].name].table = task[t].table
              /\ datasets[task[t].name].df =
                     ServerFilter(ServerRows(clientTenant, task[t].table),
                                  Filters[task[t].flt])

\* C18: while the request of a get_record call made without an id field is
\* in flight, the field its filter compares is the table's primary-key
\* field as the schema store resolves it.
C18_GetRecordFiltersOnResolvedKey ==
    \A t \in Tasks :
        (task[t].op = "get_record" /\ task[t].pc = "one_get")
           => task[t].pk_field = get_pk_field(task[t].table)

\* C15: whatever groupby, aggregate, period and pivot column it is given,
\* and whether or not a value map normalizes its working frame, analyze
\* leaves the frame of the entry it reads, and every other cached frame
\* and dataset, as it was.
C15_AnalyzeLeavesFrameUnchanged ==
    [][\A t \in Tasks :
          (Begins(t) /\ task'[t].op = "analyze")
             => /\ tableCache' = tableCache
                /\ datasets' = datasets
                /\ task'[t].kind # "not_found"
                      => task'[t].rows = WorkingFrame(ResolveEntry(task'[t].name),
                                                      task'[t].args)]_vars

C15_Witness ==
    \E t \in Tasks :
        /\ Done(t) /\ task[t].op = "analyze" /\ task[t].name = "Orders"
        /\ task[t].args.groupby = "Status" /\ task[t].kind = "grouped"
        /\ \E i \in 1..Len(task[t].rows) : task[t].rows[i].Status = "Active"
        /\ \E i \in 1..Len(tableCache["Orders"].df) : tableCache["Orders"].df[i].Status = "A"
        /\ \A i \in 1..Len(tableCache["Orders"].df) :
               tableCache["Orders"].df[i].Status # "Active"

\* C19: analyze answers by the branch the behaviour table gives: neither
\* groupby nor aggregate, describe; groupby without aggregate, value counts
\* whatever period and pivot are; aggregate without groupby, the scalar
\* aggregate whatever period and pivot are; both, with neither period nor
\* pivot, the grouped aggregate; both with a pivot column and no period,
\* the pivot table.
C19_AnalyzeDispatch ==
    \A t \in Tasks :
        (Done(t) /\ task[t].op = "analyze" /\ task[t].kind # "not_found")
           => LET a == task[t].args
              IN  /\ (a.groupby = "" /\ a.aggregate = "") => task[t].kind = "describe"
                  /\ (a.groupby # "" /\ a.aggregate = "") => task[t].kind = "value_counts"
                  /\ (a.groupby = "" /\ a.aggregate # "") => task[t].kind = "scalar"
                  /\ (a.groupby # "" /\ a.aggregate # "" /\ a.period = ""
                      /\ a.pivot_column = "") => task[t].kind = "grouped"
                  /\ (a.groupby # "" /\ a.aggregate # "" /\ a.period = ""
                      /\ a.pivot_column # "") => task[t].kind = "pivot"

\* C20: in every table-cache entry, whatever merges built it from the
\* empty cache, no two rows carry the same primary-key value.
C20_CacheRowsUniqueByKey ==
    \A k \in CacheKeys : \A i, j \in 1..Len(tableCache[k].df) :
        tableCache[k].df[i].pk = tableCache[k].df[j].pk => i = j

----------------------------------------------------------------------------
(* Date-range cache: coverage, row cap, bounds *)

\* The rows of sequence rows as a set.
RowSet(rows) == {rows[i] : i \in 1..Len(rows)}

\* C21: a date-range entry with bounds [date_min, date_max], all of whose
\* rows come from the active tenant, holds every row that tenant's server
\* has with a date inside the bounds.
C21_BoundsCoverEveryServerRow ==
    \A k \in CacheKeys :
        LET e == tableCache[k]
        IN  ( /\ e # NoEntry
              /\ e.date_field # ""
              /\ e.date_min # NoDate /\ e.date_max # NoDate
              /\ activeTenant = DefaultTenant
              /\ \A r \in RowSet(e.df) : r.src = DefaultTenant )
            => \A r \in RowSet(ServerRows(DefaultTenant, k)) :
                   (e.date_min <= r.D /\ r.D <= e.date_max) => r \in RowSet(e.df)

\* C22: after every write of the table cache the entry holds at most
\* MAX_ROWS_PER_TABLE rows.
C22_CacheWithinRowCap ==
    \A k \in CacheKeys :
        /\ Len(tableCache[k].df) <= MAX_ROWS_PER_TABLE
        /\ tableCache[k].row_count <= MAX_ROWS_PER_TABLE

\* The days of the range [lo, hi]; an absent bound leaves that side open.
DateRange(lo, hi) ==
    {d \in 0..(MaxDay + 1) : (lo = NoDate \/ d >= lo) /\ (hi = NoDate \/ d <= hi)}

\* C23: a merge into an existing entry leaves bounds whose range is the
\* union of the range the entry had and the range of the inserted gap, so
\* the cached range never shrinks.
C23_MergeUnitesBounds ==
    [][\A t \in Tasks :
          LET old == tableCache[task[t].table]
              new == tableCache'[task[t].table]
              gap == Last(task[t].log)
          IN  (task[t].pc = "q_gap" /\ old # NoEntry /\ new # old)
              => DateRange(new.date_min, new.date_max)
                   = DateRange(old.date_min, old.date_max) \cup DateRange(gap.gmin, gap.gmax)]_vars

----------------------------------------------------------------------------
(* Gap computation *)

\* The bounds a request may carry: a day, or absent.
RequestBounds == (1..MaxDay) \cup {NoDate}

\* The days covered by a list of gaps.
GapDays(gaps) == UNION {DateRange(gaps[i][1], gaps[i][2]) : i \in 1..Len(gaps)}

\* The gaps are what the request needs beyond the cached range [e_min,
\* e_max]: with the cached range they make up the requested range extended
\* to the cached one, none holds a cached day, none is empty, no two overlap.
MinimalGaps(gaps, e_min, e_max, r_min, r_max) ==
    LET lo == IF r_min = NoDate THEN NoDate ELSE MinDate(r_min, e_min)
        hi == IF r_max = NoDate THEN NoDate ELSE MaxDate(r_max, e_max)
    IN  /\ GapDays(gaps) \cup DateRange(e_min, e_max) = DateRange(lo, hi)
        /\ GapDays(gaps) \cap DateRange(e_min, e_max) = {}
        /\ \A i \in 1..Len(gaps) : DateRange(gaps[i][1], gaps[i][2]) # {}
        /\ \A i, j \in 1..Len(gaps) :
               i # j => DateRange(gaps[i][1], gaps[i][2]) \cap DateRange(gaps[j][1], gaps[j][2]) = {}

\* C24: for the range [date_min, date_max] of every cache entry and every
\* requested range (either bound possibly absent), compute_date_gaps returns
\* the minimal gaps that make the cache cover the request.
C24_GapsAreMinimalCover ==
    \A k \in CacheKeys :
        LET e == tableCache[k]
        IN  (e.date_min # NoDate /\ e.date_max # NoDate /\ e.date_min <= e.date_max)
            => \A r_min, r_max \in RequestBounds :
                   (r_min = NoDate \/ r_max = NoDate \/ r_min <= r_max)
                   => MinimalGaps(compute_date_gaps(e.date_min, e.date_max, r_min, r_max),
                                  e.date_min, e.date_max, r_min, r_max)

\* A query is fetching the left gap computed against an entry with both
\* bounds, and a right gap is still to come.
C24_Witness ==
    \E t \in Tasks :
        LET e == tableCache[task[t].table]
        IN  /\ task[t].op = "query_records" /\ task[t].pc = "q_gap"
            /\ e # NoEntry /\ e.date_min # NoDate /\ e.date_max # NoDate
            /\ e.date_min <= e.date_max
            /\ Len(task[t].gaps) >= 2
            /\ task[t].gaps[1] = <<task[t].req_min, e.date_min - 1>>
            /\ task[t].gaps[2][1] = e.date_max + 1

----------------------------------------------------------------------------
(* Today refresh *)

\* How many gaps of the list are exactly (today, today).
TodayGaps(gaps) == Cardinality({i \in 1..Len(gaps) : gaps[i] = <<Today, Today>>})

\* C28: a query_records call that takes the date-range cache path with a
\* requested range touching today (upper bound absent or not before today)
\* while an entry exists sets out to fetch (today, today) exactly once; a
\* requested range ending before today gets no such gap.
C28_TodayFetchedExactlyOnce ==
    [][\A t \in Tasks :
          LET tk == task'[t]
              existing == tableCache[tk.table]
              touches_today == tk.req_max = NoDate \/ tk.req_max >= Today
              cache_path == \/ tk.date_field # ""
                            \/ /\ tk.pc = "done" /\ tk.kind = "cache"
                               /\ get_cache_config(tk.table).mode = "date_range"
          IN  (Begins(t) /\ tk.op = "query_records" /\ cache_path)
              => /\ (existing # NoEntry /\ touches_today) => TodayGaps(tk.gaps) = 1
                 /\ ~touches_today => TodayGaps(tk.gaps) = 0]_vars

\* A query whose range reaches today has just begun against an entry whose
\* bounds already contain today, and its only gap is (today, today).
C28_Witness ==
    \E t \in Tasks :
        LET e == tableCache[task[t].table]
        IN  /\ task[t].op = "query_records" /\ task[t].pc = "q_gap"
            /\ Len(task[t].log) = 1
            /\ e # NoEntry /\ e.date_min # NoDate /\ e.date_min <= Today
            /\ e.date_max # NoDate /\ Today <= e.date_max
            /\ task[t].req_max # NoDate /\ task[t].req_max >= Today
            /\ task[t].gaps = << <<Today, Today>> >>

----------------------------------------------------------------------------
(* Unbounded fetches *)

\* C29: query_records never sends a gap fetch that bounds the date field on
\* neither side.
C29_NoUnboundedGapFetch ==
    \A t \in Tasks :
        \A i \in 1..Len(task[t].log) :
            task[t].log[i].kind = "gap"
            => task[t].log[i].gmin # NoDate \/ task[t].log[i].gmax # NoDate

----------------------------------------------------------------------------
(* Bounds after a served query *)

\* C30: when query_records has answered a request with both date bounds
\* present from the date-range cache, the bounds of the entry contain the
\* requested range.
C30_ServedRangeWithinBounds ==
    \A t \in Tasks :
        LET e == tableCache[task[t].table]
        IN  ( /\ Done(t) /\ task[t].op = "query_records" /\ task[t].kind = "cache"
              /\ task[t].req_min # NoDate /\ task[t].req_max # NoDate )
            => /\ e.date_min # NoDate /\ e.date_min <= task[t].req_min
               /\ e.date_max # NoDate /\ task[t].req_max <= e.date_max

----------------------------------------------------------------------------
(* Writes and suspension points *)

\* The process-wide state named by the atomicity rule.
SharedState == <<TABLES, FIELD_ANNOTATIONS, DDL_CONTEXT, EXPOSED_TABLES, tableCache, activeTenant>>

\* The call of record tk has written process-wide state already: use_tenant
\* cleared the schema store, or bootstrap_ddl merged the exposed tables
\* after the DDL script answered.
WroteBefore(tk) ==
    \E i \in 1..Len(tk.log) :
        \/ tk.log[i].ev \in {"clear_tables", "clear_exposed_tables", "set_active"}
        \/ tk.log[i].kind = "script" /\ tk.log[i].outcome = "ok"

\* C26: a call that has written process-wide state and was then suspended
\* at an awaited remote call writes no process-wide state when it resumes.
C26_NoAwaitBetweenWrites ==
    [][\A t \in Tasks :
          ( /\ task[t].pc \notin {"idle", "done"}
            /\ task'[t] # task[t]
            /\ WroteBefore(task[t]) )
          => SharedState' = SharedState]_vars

----------------------------------------------------------------------------
(* Overlapping calls *)

\* The days asked for by the answered gap fetches of the calls on record.
FetchedDays ==
    UNION {UNION {DateRange(task[t].log[i].gmin, task[t].log[i].gmax) :
                     i \in {j \in 1..Len(task[t].log) :
                               /\ task[t].log[j].kind = "gap"
                               /\ task[t].log[j].outcome = "ok"}} : t \in Tasks}

\* C25: while each caller has made at most one call, so that every fetch
\* since the cache was empty is on record, the entry built by the queries,
\* overlapping or not, has unique primary keys and bounds that contain only
\* days some gap fetch asked for.
C25_OverlappingQueriesKeepEntrySound ==
    (\A t \in Tasks : task[t].calls <= 1)
    => \A k \in CacheKeys :
           LET e == tableCache[k]
           IN  /\ \A i, j \in 1..Len(e.df) : i # j => e.df[i].pk # e.df[j].pk
               /\ (e.date_min # NoDate /\ e.date_max # NoDate)
                  => DateRange(e.date_min, e.date_max) \subseteq FetchedDays

\* The rows of the entry or dataset that the step has added.
AddedRows(old, new) == RowSet(new.df) \ RowSet(old.df)

\* C27: every row a step puts into the table cache or into a named dataset
\* was fetched from the tenant that is active when the step installs it.
C27_InstalledRowsAreFromActiveTenant ==
    [][/\ \A k \in CacheKeys :
             \A r \in AddedRows(tableCache[k], tableCache'[k]) : r.src = activeTenant'
       /\ \A n \in DatasetNames :
             \A r \in AddedRows(datasets[n], datasets'[n]) : r.src = activeTenant']_vars

----------------------------------------------------------------------------
(* Retries *)

\* The service-document GETs on the log.
DiscoveryAttempts(log) ==
    {i \in 1..Len(log) : log[i].kind = "service_document"}

\* C31: when bootstrap has stopped in step 1 on a connection failure, the
\* service document was requested once and then again for each of the
\* three retries.
C31_DiscoveryRetriedBeforeGivingUp ==
    \A t \in Tasks :
        ( /\ Done(t) /\ task[t].op \in BootstrapOps
          /\ Last(task[t].log).kind = "service_document"
          /\ Last(task[t].log).outcome = "failed"
          /\ bootstrapError = "ConnectionError" )
        => Cardinality(DiscoveryAttempts(task[t].log)) = DiscoverMaxRetries + 1

Retrying(t) == task[t].op = "_retry_with_backoff"

\* C32: _retry_with_backoff makes at most max_retries + 1 attempts, has
\* waited base_delay * 2^k before retry k + 1, returns at the first attempt
\* that succeeds, returns None only after max_retries + 1 retryable
\* failures, and lets an authentication or not-found error go at once,
\* with no attempt after it.
C32_RetryWithBackoff ==
    \A t \in Tasks :
        Retrying(t) =>
            LET tk == task[t]
                n == Len(tk.log)
                Failed(i) == tk.log[i].outcome \in _RETRYABLE_ERRORS
            IN  /\ n <= tk.max_retries + 1
                /\ \A k \in 0..(Len(tk.delays) - 1) :
                       tk.delays[k + 1] = tk.base_delay * 2^k
                /\ Len(tk.delays) = (IF tk.pc = "retry_sleep" THEN n ELSE n - 1)
                /\ \A i \in 1..(n - 1) : Failed(i)
                /\ tk.result = "value" <=> (Done(t) /\ tk.log[n].outcome = "ok")
                /\ tk.result = "None" <=> (Done(t) /\ n = tk.max_retries + 1 /\ Failed(n))
                /\ tk.log[n].outcome \in {"PermissionError", "ValueError"}
                   => (Done(t) /\ tk.result = "raised" /\ tk.kind = tk.log[n].outcome)

\* The helper has given up after three retries, having waited 1, 2 and 4
\* times the base delay.
C32_Witness ==
    \E t \in Tasks :
        /\ Retrying(t) /\ Done(t) /\ task[t].result = "None"
        /\ task[t].max_retries = DiscoverMaxRetries
        /\ Len(task[t].log) = DiscoverMaxRetries + 1
        /\ Len(task[t].delays) = DiscoverMaxRetries

----------------------------------------------------------------------------
(* DDL script failures and the schema store *)

\* C33: when step 2 of bootstrap is answered with anything but DDL text
\* (script missing, error, unreachable, empty answer), bootstrap leaves the
\* exposed-table set equal to the step-1 list and installs no descriptor.
C33_ScriptFailureExposesStepOneList ==
    [][\A t \in Tasks :
          ( /\ task[t].pc = "bs_script"
            /\ task'[t] # task[t]
            /\ task'[t].log[Len(task[t].log)].outcome # "ok" )
          => /\ EXPOSED_TABLES' = task[t].permitted
             /\ TABLES' = TABLES]_vars

\* C34: every table that has a descriptor in the schema store is in the
\* exposed-table set.
C34_DescriptorsAreExposed == TABLES \subseteq EXPOSED_TABLES

\* The step makes task t send a POST to the DDL script.
PostsScript(t) ==
    /\ task'[t].log # <<>>
    /\ Begins(t) \/ Len(task'[t].log) > Len(task[t].log)
    /\ Last(task'[t].log).kind = "script"
    /\ Last(task'[t].log).outcome = "pending"

\* C35: while the DDL script is marked unavailable no step posts to it, and
\* the mark stays until a tenant switch resets it to unknown.
C35_NoScriptPostWhileUnavailable ==
    [][scriptAvailable = "no"
       => /\ \A t \in Tasks : ~PostsScript(t)
          /\ \/ scriptAvailable' = "no"
             \/ /\ scriptAvailable' = "unknown"
                /\ \E t \in Tasks : Begins(t) /\ task'[t].op = "use_tenant"]_vars

\* With the script marked unavailable, a get_schema refresh has gone
\* straight to $metadata.
C35_Witness ==
    \E t \in Tasks :
        /\ scriptAvailable = "no"
        /\ task[t].op = "get_schema" /\ task[t].pc = "gs_metadata"
        /\ Len(task[t].log) = 1

----------------------------------------------------------------------------
(* Paging *)

PagedKinds == {"gap", "all", "load"}
PagingPcs == {"q_gap", "q_all", "ld_page"}

\* The rows the server returns for the page request req of call tk.
PageRows(tk, req) ==
    LET rows == ServerRows(req.tenant, tk.table)
    IN  CASE req.kind = "gap"  -> Page(GapRows(rows, req.gmin, req.gmax), req.skip)
          [] req.kind = "all"  -> Page(rows, req.skip)
          [] req.kind = "load" -> Page(ServerFilter(rows, Filters[tk.flt]), req.skip)
          [] OTHER             -> <<>>

\* C36: a gap fetch, cache_all fetch or dataset load asks for one page at a
\* time, starting at skip 0; after a full page it asks for the next page of
\* the same range with skip advanced by the page size; after a short page
\* it asks for no further page, and a query goes on with the next gap of
\* its list; after a failed request no gap or page is fetched.
C36_PagesAndGapsInSequence ==
    [][\A t \in Tasks :
          LET tk == task[t]
              n == Len(tk.log)
              old == tk.log[n]
              ans == task'[t].log[n].outcome
              sends == Len(task'[t].log) > n
              new == task'[t].log[n + 1]
              full == Len(PageRows(tk, old)) = PageSize
              fetches == sends /\ new.kind \in PagedKinds
          IN  /\ (Begins(t) /\ task'[t].pc \in PagingPcs)
                 => /\ Len(task'[t].log) = 1
                    /\ task'[t].log[1].skip = 0
                    /\ task'[t].log[1].kind = "gap"
                       => <<task'[t].log[1].gmin, task'[t].log[1].gmax>> = Head(task'[t].gaps)
              /\ (tk.pc \in PagingPcs /\ task'[t] # tk)
                 => /\ Len(task'[t].log) <= n + 1
                    /\ old.kind = "gap" => <<old.gmin, old.gmax>> = Head(tk.gaps)
                    /\ (ans = "ok" /\ full)
                       => /\ fetches
                          /\ new.kind = old.kind /\ new.path = old.path
                          /\ new.gmin = old.gmin /\ new.gmax = old.gmax
                          /\ new.skip = old.skip + PageSize
                    /\ (ans = "ok" /\ ~full)
                       => IF old.kind = "gap" /\ Len(tk.gaps) >= 2
                          THEN /\ fetches /\ new.kind = "gap" /\ new.skip = 0
                               /\ <<new.gmin, new.gmax>> = tk.gaps[2]
                          ELSE ~fetches
                    /\ ans # "ok" => ~fetches]_vars

\* A query has fetched its first gap in two pages and is fetching the
\* second gap of its list.
C36_Witness ==
    \E t \in Tasks :
        /\ task[t].op = "query_records" /\ task[t].pc = "q_gap"
        /\ Len(task[t].log) = 3
        /\ task[t].log[1].skip = 0 /\ task[t].log[2].skip = PageSize
        /\ task[t].log[2].gmin = task[t].log[1].gmin
        /\ task[t].log[2].gmax = task[t].log[1].gmax
        /\ task[t].log[3].skip = 0
        /\ <<task[t].log[3].gmin, task[t].log[3].gmax>> # <<task[t].log[1].gmin, task[t].log[1].gmax>>

----------------------------------------------------------------------------
(* Filter helpers *)

\* C39: normalize_dates_in_filter is idempotent: normalizing what it
\* returned gives the same filter again.
C39_NormalizeIsIdempotent ==
    \A t \in Tasks :
        (Done(t) /\ task[t].op = "normalize_dates_in_filter")
        => normalize_dates_in_filter(task[t].filter_out) = task[t].filter_out

\* C40: for every field name and dates start <= end, extract_date_range of
\* build_period_filter(field, start, end) for that field is (start, end).
C40_PeriodFilterRoundTrip ==
    \A t \in Tasks :
        (Done(t) /\ task[t].op = "extract_date_range")
        => task[t].range = <<task[t].req_min, task[t].req_max>>

----------------------------------------------------------------------------
(* Flush during a gap fetch *)

\* The days the gap requests on the log asked for.
RequestedGapDays(log) ==
    UNION {DateRange(log[i].gmin, log[i].gmax) :
              i \in {j \in 1..Len(log) : log[j].kind = "gap"}}

\* C37: when a date-range query that fetched gaps is answered from the
\* cache, the entry it is answered from covers every requested day the
\* query did not fetch, that is, the part of the request that was cached
\* when it computed its gaps; also when flush_datasets ran meanwhile.
C37_FlushKeepsCachedPart ==
    [][\A t \in Tasks :
          LET tk == task[t]
              e == tableCache'[tk.table]
              asked == DateRange(tk.req_min, tk.req_max) \cap Days
          IN  ( /\ tk.op = "query_records" /\ tk.pc = "q_gap"
                /\ task'[t].pc = "done" /\ task'[t].kind = "cache" )
              => (asked \ RequestedGapDays(tk.log)) \subseteq DateRange(e.date_min, e.date_max)]_vars

----------------------------------------------------------------------------
(* Overlapping tenant switches *)

\* No call is in progress.
Quiescent == phase = "serving" /\ \A t \in Tasks : task[t].pc \in {"idle", "done"}

\* C38: once every use_tenant call has returned, overlapping or not, the
\* client holds the credentials of the tenant recorded as active, and the
\* exposed-table set and the schema store hold only tables of that tenant.
C38_SwitchesLeaveOneTenant ==
    Quiescent
    => /\ clientTenant = activeTenant
       /\ EXPOSED_TABLES \subseteq ServiceDoc(activeTenant)
       /\ TABLES \subseteq DDLTables(activeTenant)
====
